---------------------------- MODULE Spec2Model ----------------------------
(***************************************************************************)
(* Model of lib/vtls/cipher_suite.c: the table of cipher suite names       *)
(* compressed to 2 + 6 bytes per entry, the conversion between a name and  *)
(* its 6 byte zip (cs_str_to_zip, cs_zip_to_str), and the three public     *)
(* functions Curl_cipher_suite_lookup_id, Curl_cipher_suite_walk_str and   *)
(* Curl_cipher_suite_get_str.                                              *)
(*                                                                         *)
(* A C string is a sequence of character codes that ends with the code 0;  *)
(* a pointer into it is a 1-based position.                                *)
(***************************************************************************)
EXTENDS Integers, Sequences, FiniteSets, TLC

\* Text for cipher suite parts (cs_txt), one character code per byte;
\* entry k+1 of the sequence is the part with index k.
cs_txt ==
  << <<>>,
     <<84,76,83>>,  \*  1 "TLS"
     <<87,73,84,72>>,  \*  2 "WITH"
     <<49,50,56>>,  \*  3 "128"
     <<50,53,54>>,  \*  4 "256"
     <<51,68,69,83>>,  \*  5 "3DES"
     <<56>>,  \*  6 "8"
     <<65,69,83>>,  \*  7 "AES"
     <<65,69,83,49,50,56>>,  \*  8 "AES128"
     <<65,69,83,50,53,54>>,  \*  9 "AES256"
     <<67,66,67>>,  \* 10 "CBC"
     <<67,66,67,51>>,  \* 11 "CBC3"
     <<67,67,77>>,  \* 12 "CCM"
     <<67,67,77,56>>,  \* 13 "CCM8"
     <<67,72,65,67,72,65,50,48>>,  \* 14 "CHACHA20"
     <<68,69,83>>,  \* 15 "DES"
     <<68,72,69>>,  \* 16 "DHE"
     <<69,67,68,72>>,  \* 17 "ECDH"
     <<69,67,68,72,69>>,  \* 18 "ECDHE"
     <<69,67,68,83,65>>,  \* 19 "ECDSA"
     <<69,68,69>>,  \* 20 "EDE"
     <<71,67,77>>,  \* 21 "GCM"
     <<77,68,53>>,  \* 22 "MD5"
     <<78,85,76,76>>,  \* 23 "NULL"
     <<80,79,76,89,49,51,48,53>>,  \* 24 "POLY1305"
     <<80,83,75>>,  \* 25 "PSK"
     <<82,83,65>>,  \* 26 "RSA"
     <<83,72,65>>,  \* 27 "SHA"
     <<83,72,65,50,53,54>>,  \* 28 "SHA256"
     <<83,72,65,51,56,52>>,  \* 29 "SHA384"
     <<65,82,73,65>>,  \* 30 "ARIA"
     <<65,82,73,65,49,50,56>>,  \* 31 "ARIA128"
     <<65,82,73,65,50,53,54>>,  \* 32 "ARIA256"
     <<67,65,77,69,76,76,73,65>>,  \* 33 "CAMELLIA"
     <<67,65,77,69,76,76,73,65,49,50,56>>,  \* 34 "CAMELLIA128"
     <<67,65,77,69,76,76,73,65,50,53,54>>   \* 35 "CAMELLIA256"
  >>

\* Indexes of above cs_txt
CS_TXT_IDX_ == 0
CS_TXT_IDX_TLS == 1
CS_TXT_IDX_WITH == 2
CS_TXT_IDX_128 == 3
CS_TXT_IDX_256 == 4
CS_TXT_IDX_3DES == 5
CS_TXT_IDX_8 == 6
CS_TXT_IDX_AES == 7
CS_TXT_IDX_AES128 == 8
CS_TXT_IDX_AES256 == 9
CS_TXT_IDX_CBC == 10
CS_TXT_IDX_CBC3 == 11
CS_TXT_IDX_CCM == 12
CS_TXT_IDX_CCM8 == 13
CS_TXT_IDX_CHACHA20 == 14
CS_TXT_IDX_DES == 15
CS_TXT_IDX_DHE == 16
CS_TXT_IDX_ECDH == 17
CS_TXT_IDX_ECDHE == 18
CS_TXT_IDX_ECDSA == 19
CS_TXT_IDX_EDE == 20
CS_TXT_IDX_GCM == 21
CS_TXT_IDX_MD5 == 22
CS_TXT_IDX_NULL == 23
CS_TXT_IDX_POLY1305 == 24
CS_TXT_IDX_PSK == 25
CS_TXT_IDX_RSA == 26
CS_TXT_IDX_SHA == 27
CS_TXT_IDX_SHA256 == 28
CS_TXT_IDX_SHA384 == 29
CS_TXT_IDX_ARIA == 30
CS_TXT_IDX_ARIA128 == 31
CS_TXT_IDX_ARIA256 == 32
CS_TXT_IDX_CAMELLIA == 33
CS_TXT_IDX_CAMELLIA128 == 34
CS_TXT_IDX_CAMELLIA256 == 35
CS_TXT_LEN == 36
-----------------------------------------------------------------------------
\* C integer operators on non-negative values.

\* bit k of x
Bit(x, k) == (x \div (2 ^ k)) % 2

\* a & b, for values below 2^16 (no value of the code reaches 2^13)
BitAnd(a, b) ==
  1 * (Bit(a, 0) * Bit(b, 0)) +
  2 * (Bit(a, 1) * Bit(b, 1)) +
  4 * (Bit(a, 2) * Bit(b, 2)) +
  8 * (Bit(a, 3) * Bit(b, 3)) +
  16 * (Bit(a, 4) * Bit(b, 4)) +
  32 * (Bit(a, 5) * Bit(b, 5)) +
  64 * (Bit(a, 6) * Bit(b, 6)) +
  128 * (Bit(a, 7) * Bit(b, 7)) +
  256 * (Bit(a, 8) * Bit(b, 8)) +
  512 * (Bit(a, 9) * Bit(b, 9)) +
  1024 * (Bit(a, 10) * Bit(b, 10)) +
  2048 * (Bit(a, 11) * Bit(b, 11)) +
  4096 * (Bit(a, 12) * Bit(b, 12)) +
  8192 * (Bit(a, 13) * Bit(b, 13)) +
  16384 * (Bit(a, 14) * Bit(b, 14)) +
  32768 * (Bit(a, 15) * Bit(b, 15))

\* a | b, for values below 2^16
BitOr(a, b) ==
  1 * (IF Bit(a, 0) + Bit(b, 0) > 0 THEN 1 ELSE 0) +
  2 * (IF Bit(a, 1) + Bit(b, 1) > 0 THEN 1 ELSE 0) +
  4 * (IF Bit(a, 2) + Bit(b, 2) > 0 THEN 1 ELSE 0) +
  8 * (IF Bit(a, 3) + Bit(b, 3) > 0 THEN 1 ELSE 0) +
  16 * (IF Bit(a, 4) + Bit(b, 4) > 0 THEN 1 ELSE 0) +
  32 * (IF Bit(a, 5) + Bit(b, 5) > 0 THEN 1 ELSE 0) +
  64 * (IF Bit(a, 6) + Bit(b, 6) > 0 THEN 1 ELSE 0) +
  128 * (IF Bit(a, 7) + Bit(b, 7) > 0 THEN 1 ELSE 0) +
  256 * (IF Bit(a, 8) + Bit(b, 8) > 0 THEN 1 ELSE 0) +
  512 * (IF Bit(a, 9) + Bit(b, 9) > 0 THEN 1 ELSE 0) +
  1024 * (IF Bit(a, 10) + Bit(b, 10) > 0 THEN 1 ELSE 0) +
  2048 * (IF Bit(a, 11) + Bit(b, 11) > 0 THEN 1 ELSE 0) +
  4096 * (IF Bit(a, 12) + Bit(b, 12) > 0 THEN 1 ELSE 0) +
  8192 * (IF Bit(a, 13) + Bit(b, 13) > 0 THEN 1 ELSE 0) +
  16384 * (IF Bit(a, 14) + Bit(b, 14) > 0 THEN 1 ELSE 0) +
  32768 * (IF Bit(a, 15) + Bit(b, 15) > 0 THEN 1 ELSE 0)

Shl(a, n) == a * (2 ^ n)

Shr(a, n) == a \div (2 ^ n)

\* a function on 1..n as a sequence value
AsSeq(f) == SubSeq(f, 1, Len(f))

\* the (uint8_t) cast
U8(x) == x % 256

\* #define CS_ZIP_IDX(a, b, c, d, e, f, g, h)
CS_ZIP_IDX(a, b, c, d, e, f, g, h) ==
  << U8(BitOr(Shl(a, 2), Shr(BitAnd(b, 63), 4))),
     U8(BitOr(Shl(b, 4), Shr(BitAnd(c, 63), 2))),
     U8(BitOr(Shl(c, 6), BitAnd(d, 63))),
     U8(BitOr(Shl(e, 2), Shr(BitAnd(f, 63), 4))),
     U8(BitOr(Shl(f, 4), Shr(BitAnd(g, 63), 2))),
     U8(BitOr(Shl(g, 6), BitAnd(h, 63))) >>

\* #define CS_ENTRY(id, a, b, c, d, e, f, g, h): a struct cs_entry
CS_ENTRY(id, a, b, c, d, e, f, g, h) ==
  [id |-> id, zip |-> CS_ZIP_IDX(a, b, c, d, e, f, g, h)]

\* The CS_ENTRY(id, a, b, c, d, e, f, g, h) lines of cs_list as written in the
\* source: the id followed by the eight part indexes.
CS_ENTRIES ==
  <<
    <<47, CS_TXT_IDX_TLS, CS_TXT_IDX_RSA, CS_TXT_IDX_WITH, CS_TXT_IDX_AES, CS_TXT_IDX_128, CS_TXT_IDX_CBC, CS_TXT_IDX_SHA, CS_TXT_IDX_>>,  \* 0x002F
    <<47, CS_TXT_IDX_AES128, CS_TXT_IDX_SHA, CS_TXT_IDX_, CS_TXT_IDX_, CS_TXT_IDX_, CS_TXT_IDX_, CS_TXT_IDX_, CS_TXT_IDX_>>,  \* 0x002F
    <<53, CS_TXT_IDX_TLS, CS_TXT_IDX_RSA, CS_TXT_IDX_WITH, CS_TXT_IDX_AES, CS_TXT_IDX_256, CS_TXT_IDX_CBC, CS_TXT_IDX_SHA, CS_TXT_IDX_>>,  \* 0x0035
    <<53, CS_TXT_IDX_AES256, CS_TXT_IDX_SHA, CS_TXT_IDX_, CS_TXT_IDX_, CS_TXT_IDX_, CS_TXT_IDX_, CS_TXT_IDX_, CS_TXT_IDX_>>,  \* 0x0035
    <<60, CS_TXT_IDX_TLS, CS_TXT_IDX_RSA, CS_TXT_IDX_WITH, CS_TXT_IDX_AES, CS_TXT_IDX_128, CS_TXT_IDX_CBC, CS_TXT_IDX_SHA256, CS_TXT_IDX_>>,  \* 0x003C
    <<60, CS_TXT_IDX_AES128, CS_TXT_IDX_SHA256, CS_TXT_IDX_, CS_TXT_IDX_, CS_TXT_IDX_, CS_TXT_IDX_, CS_TXT_IDX_, CS_TXT_IDX_>>,  \* 0x003C
    <<61, CS_TXT_IDX_TLS, CS_TXT_IDX_RSA, CS_TXT_IDX_WITH, CS_TXT_IDX_AES, CS_TXT_IDX_256, CS_TXT_IDX_CBC, CS_TXT_IDX_SHA256, CS_TXT_IDX_>>,  \* 0x003D
    <<61, CS_TXT_IDX_AES256, CS_TXT_IDX_SHA256, CS_TXT_IDX_, CS_TXT_IDX_, CS_TXT_IDX_, CS_TXT_IDX_, CS_TXT_IDX_, CS_TXT_IDX_>>,  \* 0x003D
    <<156, CS_TXT_IDX_TLS, CS_TXT_IDX_RSA, CS_TXT_IDX_WITH, CS_TXT_IDX_AES, CS_TXT_IDX_128, CS_TXT_IDX_GCM, CS_TXT_IDX_SHA256, CS_TXT_IDX_>>,  \* 0x009C
    <<156, CS_TXT_IDX_AES128, CS_TXT_IDX_GCM, CS_TXT_IDX_SHA256, CS_TXT_IDX_, CS_TXT_IDX_, CS_TXT_IDX_, CS_TXT_IDX_, CS_TXT_IDX_>>,  \* 0x009C
    <<157, CS_TXT_IDX_TLS, CS_TXT_IDX_RSA, CS_TXT_IDX_WITH, CS_TXT_IDX_AES, CS_TXT_IDX_256, CS_TXT_IDX_GCM, CS_TXT_IDX_SHA384, CS_TXT_IDX_>>,  \* 0x009D
    <<157, CS_TXT_IDX_AES256, CS_TXT_IDX_GCM, CS_TXT_IDX_SHA384, CS_TXT_IDX_, CS_TXT_IDX_, CS_TXT_IDX_, CS_TXT_IDX_, CS_TXT_IDX_>>,  \* 0x009D
    <<49156, CS_TXT_IDX_TLS, CS_TXT_IDX_ECDH, CS_TXT_IDX_ECDSA, CS_TXT_IDX_WITH, CS_TXT_IDX_AES, CS_TXT_IDX_128, CS_TXT_IDX_CBC, CS_TXT_IDX_SHA>>,  \* 0xC004
    <<49156, CS_TXT_IDX_ECDH, CS_TXT_IDX_ECDSA, CS_TXT_IDX_AES128, CS_TXT_IDX_SHA, CS_TXT_IDX_, CS_TXT_IDX_, CS_TXT_IDX_, CS_TXT_IDX_>>,  \* 0xC004
    <<49157, CS_TXT_IDX_TLS, CS_TXT_IDX_ECDH, CS_TXT_IDX_ECDSA, CS_TXT_IDX_WITH, CS_TXT_IDX_AES, CS_TXT_IDX_256, CS_TXT_IDX_CBC, CS_TXT_IDX_SHA>>,  \* 0xC005
    <<49157, CS_TXT_IDX_ECDH, CS_TXT_IDX_ECDSA, CS_TXT_IDX_AES256, CS_TXT_IDX_SHA, CS_TXT_IDX_, CS_TXT_IDX_, CS_TXT_IDX_, CS_TXT_IDX_>>,  \* 0xC005
    <<49161, CS_TXT_IDX_TLS, CS_TXT_IDX_ECDHE, CS_TXT_IDX_ECDSA, CS_TXT_IDX_WITH, CS_TXT_IDX_AES, CS_TXT_IDX_128, CS_TXT_IDX_CBC, CS_TXT_IDX_SHA>>,  \* 0xC009
    <<49161, CS_TXT_IDX_ECDHE, CS_TXT_IDX_ECDSA, CS_TXT_IDX_AES128, CS_TXT_IDX_SHA, CS_TXT_IDX_, CS_TXT_IDX_, CS_TXT_IDX_, CS_TXT_IDX_>>,  \* 0xC009
    <<49162, CS_TXT_IDX_TLS, CS_TXT_IDX_ECDHE, CS_TXT_IDX_ECDSA, CS_TXT_IDX_WITH, CS_TXT_IDX_AES, CS_TXT_IDX_256, CS_TXT_IDX_CBC, CS_TXT_IDX_SHA>>,  \* 0xC00A
    <<49162, CS_TXT_IDX_ECDHE, CS_TXT_IDX_ECDSA, CS_TXT_IDX_AES256, CS_TXT_IDX_SHA, CS_TXT_IDX_, CS_TXT_IDX_, CS_TXT_IDX_, CS_TXT_IDX_>>,  \* 0xC00A
    <<49166, CS_TXT_IDX_TLS, CS_TXT_IDX_ECDH, CS_TXT_IDX_RSA, CS_TXT_IDX_WITH, CS_TXT_IDX_AES, CS_TXT_IDX_128, CS_TXT_IDX_CBC, CS_TXT_IDX_SHA>>,  \* 0xC00E
    <<49166, CS_TXT_IDX_ECDH, CS_TXT_IDX_RSA, CS_TXT_IDX_AES128, CS_TXT_IDX_SHA, CS_TXT_IDX_, CS_TXT_IDX_, CS_TXT_IDX_, CS_TXT_IDX_>>,  \* 0xC00E
    <<49167, CS_TXT_IDX_TLS, CS_TXT_IDX_ECDH, CS_TXT_IDX_RSA, CS_TXT_IDX_WITH, CS_TXT_IDX_AES, CS_TXT_IDX_256, CS_TXT_IDX_CBC, CS_TXT_IDX_SHA>>,  \* 0xC00F
    <<49167, CS_TXT_IDX_ECDH, CS_TXT_IDX_RSA, CS_TXT_IDX_AES256, CS_TXT_IDX_SHA, CS_TXT_IDX_, CS_TXT_IDX_, CS_TXT_IDX_, CS_TXT_IDX_>>,  \* 0xC00F
    <<49171, CS_TXT_IDX_TLS, CS_TXT_IDX_ECDHE, CS_TXT_IDX_RSA, CS_TXT_IDX_WITH, CS_TXT_IDX_AES, CS_TXT_IDX_128, CS_TXT_IDX_CBC, CS_TXT_IDX_SHA>>,  \* 0xC013
    <<49171, CS_TXT_IDX_ECDHE, CS_TXT_IDX_RSA, CS_TXT_IDX_AES128, CS_TXT_IDX_SHA, CS_TXT_IDX_, CS_TXT_IDX_, CS_TXT_IDX_, CS_TXT_IDX_>>,  \* 0xC013
    <<49172, CS_TXT_IDX_TLS, CS_TXT_IDX_ECDHE, CS_TXT_IDX_RSA, CS_TXT_IDX_WITH, CS_TXT_IDX_AES, CS_TXT_IDX_256, CS_TXT_IDX_CBC, CS_TXT_IDX_SHA>>,  \* 0xC014
    <<49172, CS_TXT_IDX_ECDHE, CS_TXT_IDX_RSA, CS_TXT_IDX_AES256, CS_TXT_IDX_SHA, CS_TXT_IDX_, CS_TXT_IDX_, CS_TXT_IDX_, CS_TXT_IDX_>>,  \* 0xC014
    <<49187, CS_TXT_IDX_TLS, CS_TXT_IDX_ECDHE, CS_TXT_IDX_ECDSA, CS_TXT_IDX_WITH, CS_TXT_IDX_AES, CS_TXT_IDX_128, CS_TXT_IDX_CBC, CS_TXT_IDX_SHA256>>,  \* 0xC023
    <<49187, CS_TXT_IDX_ECDHE, CS_TXT_IDX_ECDSA, CS_TXT_IDX_AES128, CS_TXT_IDX_SHA256, CS_TXT_IDX_, CS_TXT_IDX_, CS_TXT_IDX_, CS_TXT_IDX_>>,  \* 0xC023
    <<49188, CS_TXT_IDX_TLS, CS_TXT_IDX_ECDHE, CS_TXT_IDX_ECDSA, CS_TXT_IDX_WITH, CS_TXT_IDX_AES, CS_TXT_IDX_256, CS_TXT_IDX_CBC, CS_TXT_IDX_SHA384>>,  \* 0xC024
    <<49188, CS_TXT_IDX_ECDHE, CS_TXT_IDX_ECDSA, CS_TXT_IDX_AES256, CS_TXT_IDX_SHA384, CS_TXT_IDX_, CS_TXT_IDX_, CS_TXT_IDX_, CS_TXT_IDX_>>,  \* 0xC024
    <<49189, CS_TXT_IDX_TLS, CS_TXT_IDX_ECDH, CS_TXT_IDX_ECDSA, CS_TXT_IDX_WITH, CS_TXT_IDX_AES, CS_TXT_IDX_128, CS_TXT_IDX_CBC, CS_TXT_IDX_SHA256>>,  \* 0xC025
    <<49189, CS_TXT_IDX_ECDH, CS_TXT_IDX_ECDSA, CS_TXT_IDX_AES128, CS_TXT_IDX_SHA256, CS_TXT_IDX_, CS_TXT_IDX_, CS_TXT_IDX_, CS_TXT_IDX_>>,  \* 0xC025
    <<49190, CS_TXT_IDX_TLS, CS_TXT_IDX_ECDH, CS_TXT_IDX_ECDSA, CS_TXT_IDX_WITH, CS_TXT_IDX_AES, CS_TXT_IDX_256, CS_TXT_IDX_CBC, CS_TXT_IDX_SHA384>>,  \* 0xC026
    <<49190, CS_TXT_IDX_ECDH, CS_TXT_IDX_ECDSA, CS_TXT_IDX_AES256, CS_TXT_IDX_SHA384, CS_TXT_IDX_, CS_TXT_IDX_, CS_TXT_IDX_, CS_TXT_IDX_>>,  \* 0xC026
    <<49191, CS_TXT_IDX_TLS, CS_TXT_IDX_ECDHE, CS_TXT_IDX_RSA, CS_TXT_IDX_WITH, CS_TXT_IDX_AES, CS_TXT_IDX_128, CS_TXT_IDX_CBC, CS_TXT_IDX_SHA256>>,  \* 0xC027
    <<49191, CS_TXT_IDX_ECDHE, CS_TXT_IDX_RSA, CS_TXT_IDX_AES128, CS_TXT_IDX_SHA256, CS_TXT_IDX_, CS_TXT_IDX_, CS_TXT_IDX_, CS_TXT_IDX_>>,  \* 0xC027
    <<49192, CS_TXT_IDX_TLS, CS_TXT_IDX_ECDHE, CS_TXT_IDX_RSA, CS_TXT_IDX_WITH, CS_TXT_IDX_AES, CS_TXT_IDX_256, CS_TXT_IDX_CBC, CS_TXT_IDX_SHA384>>,  \* 0xC028
    <<49192, CS_TXT_IDX_ECDHE, CS_TXT_IDX_RSA, CS_TXT_IDX_AES256, CS_TXT_IDX_SHA384, CS_TXT_IDX_, CS_TXT_IDX_, CS_TXT_IDX_, CS_TXT_IDX_>>,  \* 0xC028
    <<49193, CS_TXT_IDX_TLS, CS_TXT_IDX_ECDH, CS_TXT_IDX_RSA, CS_TXT_IDX_WITH, CS_TXT_IDX_AES, CS_TXT_IDX_128, CS_TXT_IDX_CBC, CS_TXT_IDX_SHA256>>,  \* 0xC029
    <<49193, CS_TXT_IDX_ECDH, CS_TXT_IDX_RSA, CS_TXT_IDX_AES128, CS_TXT_IDX_SHA256, CS_TXT_IDX_, CS_TXT_IDX_, CS_TXT_IDX_, CS_TXT_IDX_>>,  \* 0xC029
    <<49194, CS_TXT_IDX_TLS, CS_TXT_IDX_ECDH, CS_TXT_IDX_RSA, CS_TXT_IDX_WITH, CS_TXT_IDX_AES, CS_TXT_IDX_256, CS_TXT_IDX_CBC, CS_TXT_IDX_SHA384>>,  \* 0xC02A
    <<49194, CS_TXT_IDX_ECDH, CS_TXT_IDX_RSA, CS_TXT_IDX_AES256, CS_TXT_IDX_SHA384, CS_TXT_IDX_, CS_TXT_IDX_, CS_TXT_IDX_, CS_TXT_IDX_>>,  \* 0xC02A
    <<49195, CS_TXT_IDX_TLS, CS_TXT_IDX_ECDHE, CS_TXT_IDX_ECDSA, CS_TXT_IDX_WITH, CS_TXT_IDX_AES, CS_TXT_IDX_128, CS_TXT_IDX_GCM, CS_TXT_IDX_SHA256>>,  \* 0xC02B
    <<49195, CS_TXT_IDX_ECDHE, CS_TXT_IDX_ECDSA, CS_TXT_IDX_AES128, CS_TXT_IDX_GCM, CS_TXT_IDX_SHA256, CS_TXT_IDX_, CS_TXT_IDX_, CS_TXT_IDX_>>,  \* 0xC02B
    <<49196, CS_TXT_IDX_TLS, CS_TXT_IDX_ECDHE, CS_TXT_IDX_ECDSA, CS_TXT_IDX_WITH, CS_TXT_IDX_AES, CS_TXT_IDX_256, CS_TXT_IDX_GCM, CS_TXT_IDX_SHA384>>,  \* 0xC02C
    <<49196, CS_TXT_IDX_ECDHE, CS_TXT_IDX_ECDSA, CS_TXT_IDX_AES256, CS_TXT_IDX_GCM, CS_TXT_IDX_SHA384, CS_TXT_IDX_, CS_TXT_IDX_, CS_TXT_IDX_>>,  \* 0xC02C
    <<49197, CS_TXT_IDX_TLS, CS_TXT_IDX_ECDH, CS_TXT_IDX_ECDSA, CS_TXT_IDX_WITH, CS_TXT_IDX_AES, CS_TXT_IDX_128, CS_TXT_IDX_GCM, CS_TXT_IDX_SHA256>>,  \* 0xC02D
    <<49197, CS_TXT_IDX_ECDH, CS_TXT_IDX_ECDSA, CS_TXT_IDX_AES128, CS_TXT_IDX_GCM, CS_TXT_IDX_SHA256, CS_TXT_IDX_, CS_TXT_IDX_, CS_TXT_IDX_>>,  \* 0xC02D
    <<49198, CS_TXT_IDX_TLS, CS_TXT_IDX_ECDH, CS_TXT_IDX_ECDSA, CS_TXT_IDX_WITH, CS_TXT_IDX_AES, CS_TXT_IDX_256, CS_TXT_IDX_GCM, CS_TXT_IDX_SHA384>>,  \* 0xC02E
    <<49198, CS_TXT_IDX_ECDH, CS_TXT_IDX_ECDSA, CS_TXT_IDX_AES256, CS_TXT_IDX_GCM, CS_TXT_IDX_SHA384, CS_TXT_IDX_, CS_TXT_IDX_, CS_TXT_IDX_>>,  \* 0xC02E
    <<49199, CS_TXT_IDX_TLS, CS_TXT_IDX_ECDHE, CS_TXT_IDX_RSA, CS_TXT_IDX_WITH, CS_TXT_IDX_AES, CS_TXT_IDX_128, CS_TXT_IDX_GCM, CS_TXT_IDX_SHA256>>,  \* 0xC02F
    <<49199, CS_TXT_IDX_ECDHE, CS_TXT_IDX_RSA, CS_TXT_IDX_AES128, CS_TXT_IDX_GCM, CS_TXT_IDX_SHA256, CS_TXT_IDX_, CS_TXT_IDX_, CS_TXT_IDX_>>,  \* 0xC02F
    <<49200, CS_TXT_IDX_TLS, CS_TXT_IDX_ECDHE, CS_TXT_IDX_RSA, CS_TXT_IDX_WITH, CS_TXT_IDX_AES, CS_TXT_IDX_256, CS_TXT_IDX_GCM, CS_TXT_IDX_SHA384>>,  \* 0xC030
    <<49200, CS_TXT_IDX_ECDHE, CS_TXT_IDX_RSA, CS_TXT_IDX_AES256, CS_TXT_IDX_GCM, CS_TXT_IDX_SHA384, CS_TXT_IDX_, CS_TXT_IDX_, CS_TXT_IDX_>>,  \* 0xC030
    <<49201, CS_TXT_IDX_TLS, CS_TXT_IDX_ECDH, CS_TXT_IDX_RSA, CS_TXT_IDX_WITH, CS_TXT_IDX_AES, CS_TXT_IDX_128, CS_TXT_IDX_GCM, CS_TXT_IDX_SHA256>>,  \* 0xC031
    <<49201, CS_TXT_IDX_ECDH, CS_TXT_IDX_RSA, CS_TXT_IDX_AES128, CS_TXT_IDX_GCM, CS_TXT_IDX_SHA256, CS_TXT_IDX_, CS_TXT_IDX_, CS_TXT_IDX_>>,  \* 0xC031
    <<49202, CS_TXT_IDX_TLS, CS_TXT_IDX_ECDH, CS_TXT_IDX_RSA, CS_TXT_IDX_WITH, CS_TXT_IDX_AES, CS_TXT_IDX_256, CS_TXT_IDX_GCM, CS_TXT_IDX_SHA384>>,  \* 0xC032
    <<49202, CS_TXT_IDX_ECDH, CS_TXT_IDX_RSA, CS_TXT_IDX_AES256, CS_TXT_IDX_GCM, CS_TXT_IDX_SHA384, CS_TXT_IDX_, CS_TXT_IDX_, CS_TXT_IDX_>>,  \* 0xC032
    <<52392, CS_TXT_IDX_TLS, CS_TXT_IDX_ECDHE, CS_TXT_IDX_RSA, CS_TXT_IDX_WITH, CS_TXT_IDX_CHACHA20, CS_TXT_IDX_POLY1305, CS_TXT_IDX_SHA256, CS_TXT_IDX_>>,  \* 0xCCA8
    <<52392, CS_TXT_IDX_ECDHE, CS_TXT_IDX_RSA, CS_TXT_IDX_CHACHA20, CS_TXT_IDX_POLY1305, CS_TXT_IDX_, CS_TXT_IDX_, CS_TXT_IDX_, CS_TXT_IDX_>>,  \* 0xCCA8
    <<52393, CS_TXT_IDX_TLS, CS_TXT_IDX_ECDHE, CS_TXT_IDX_ECDSA, CS_TXT_IDX_WITH, CS_TXT_IDX_CHACHA20, CS_TXT_IDX_POLY1305, CS_TXT_IDX_SHA256, CS_TXT_IDX_>>,  \* 0xCCA9
    <<52393, CS_TXT_IDX_ECDHE, CS_TXT_IDX_ECDSA, CS_TXT_IDX_CHACHA20, CS_TXT_IDX_POLY1305, CS_TXT_IDX_, CS_TXT_IDX_, CS_TXT_IDX_, CS_TXT_IDX_>>,  \* 0xCCA9
    <<1, CS_TXT_IDX_TLS, CS_TXT_IDX_RSA, CS_TXT_IDX_WITH, CS_TXT_IDX_NULL, CS_TXT_IDX_MD5, CS_TXT_IDX_, CS_TXT_IDX_, CS_TXT_IDX_>>,  \* 0x0001
    <<1, CS_TXT_IDX_NULL, CS_TXT_IDX_MD5, CS_TXT_IDX_, CS_TXT_IDX_, CS_TXT_IDX_, CS_TXT_IDX_, CS_TXT_IDX_, CS_TXT_IDX_>>,  \* 0x0001
    <<2, CS_TXT_IDX_TLS, CS_TXT_IDX_RSA, CS_TXT_IDX_WITH, CS_TXT_IDX_NULL, CS_TXT_IDX_SHA, CS_TXT_IDX_, CS_TXT_IDX_, CS_TXT_IDX_>>,  \* 0x0002
    <<2, CS_TXT_IDX_NULL, CS_TXT_IDX_SHA, CS_TXT_IDX_, CS_TXT_IDX_, CS_TXT_IDX_, CS_TXT_IDX_, CS_TXT_IDX_, CS_TXT_IDX_>>,  \* 0x0002
    <<44, CS_TXT_IDX_TLS, CS_TXT_IDX_PSK, CS_TXT_IDX_WITH, CS_TXT_IDX_NULL, CS_TXT_IDX_SHA, CS_TXT_IDX_, CS_TXT_IDX_, CS_TXT_IDX_>>,  \* 0x002C
    <<44, CS_TXT_IDX_PSK, CS_TXT_IDX_NULL, CS_TXT_IDX_SHA, CS_TXT_IDX_, CS_TXT_IDX_, CS_TXT_IDX_, CS_TXT_IDX_, CS_TXT_IDX_>>,  \* 0x002C
    <<45, CS_TXT_IDX_TLS, CS_TXT_IDX_DHE, CS_TXT_IDX_PSK, CS_TXT_IDX_WITH, CS_TXT_IDX_NULL, CS_TXT_IDX_SHA, CS_TXT_IDX_, CS_TXT_IDX_>>,  \* 0x002D
    <<45, CS_TXT_IDX_DHE, CS_TXT_IDX_PSK, CS_TXT_IDX_NULL, CS_TXT_IDX_SHA, CS_TXT_IDX_, CS_TXT_IDX_, CS_TXT_IDX_, CS_TXT_IDX_>>,  \* 0x002D
    <<46, CS_TXT_IDX_TLS, CS_TXT_IDX_RSA, CS_TXT_IDX_PSK, CS_TXT_IDX_WITH, CS_TXT_IDX_NULL, CS_TXT_IDX_SHA, CS_TXT_IDX_, CS_TXT_IDX_>>,  \* 0x002E
    <<46, CS_TXT_IDX_RSA, CS_TXT_IDX_PSK, CS_TXT_IDX_NULL, CS_TXT_IDX_SHA, CS_TXT_IDX_, CS_TXT_IDX_, CS_TXT_IDX_, CS_TXT_IDX_>>,  \* 0x002E
    <<51, CS_TXT_IDX_TLS, CS_TXT_IDX_DHE, CS_TXT_IDX_RSA, CS_TXT_IDX_WITH, CS_TXT_IDX_AES, CS_TXT_IDX_128, CS_TXT_IDX_CBC, CS_TXT_IDX_SHA>>,  \* 0x0033
    <<51, CS_TXT_IDX_DHE, CS_TXT_IDX_RSA, CS_TXT_IDX_AES128, CS_TXT_IDX_SHA, CS_TXT_IDX_, CS_TXT_IDX_, CS_TXT_IDX_, CS_TXT_IDX_>>,  \* 0x0033
    <<57, CS_TXT_IDX_TLS, CS_TXT_IDX_DHE, CS_TXT_IDX_RSA, CS_TXT_IDX_WITH, CS_TXT_IDX_AES, CS_TXT_IDX_256, CS_TXT_IDX_CBC, CS_TXT_IDX_SHA>>,  \* 0x0039
    <<57, CS_TXT_IDX_DHE, CS_TXT_IDX_RSA, CS_TXT_IDX_AES256, CS_TXT_IDX_SHA, CS_TXT_IDX_, CS_TXT_IDX_, CS_TXT_IDX_, CS_TXT_IDX_>>,  \* 0x0039
    <<59, CS_TXT_IDX_TLS, CS_TXT_IDX_RSA, CS_TXT_IDX_WITH, CS_TXT_IDX_NULL, CS_TXT_IDX_SHA256, CS_TXT_IDX_, CS_TXT_IDX_, CS_TXT_IDX_>>,  \* 0x003B
    <<59, CS_TXT_IDX_NULL, CS_TXT_IDX_SHA256, CS_TXT_IDX_, CS_TXT_IDX_, CS_TXT_IDX_, CS_TXT_IDX_, CS_TXT_IDX_, CS_TXT_IDX_>>,  \* 0x003B
    <<103, CS_TXT_IDX_TLS, CS_TXT_IDX_DHE, CS_TXT_IDX_RSA, CS_TXT_IDX_WITH, CS_TXT_IDX_AES, CS_TXT_IDX_128, CS_TXT_IDX_CBC, CS_TXT_IDX_SHA256>>,  \* 0x0067
    <<103, CS_TXT_IDX_DHE, CS_TXT_IDX_RSA, CS_TXT_IDX_AES128, CS_TXT_IDX_SHA256, CS_TXT_IDX_, CS_TXT_IDX_, CS_TXT_IDX_, CS_TXT_IDX_>>,  \* 0x0067
    <<107, CS_TXT_IDX_TLS, CS_TXT_IDX_DHE, CS_TXT_IDX_RSA, CS_TXT_IDX_WITH, CS_TXT_IDX_AES, CS_TXT_IDX_256, CS_TXT_IDX_CBC, CS_TXT_IDX_SHA256>>,  \* 0x006B
    <<107, CS_TXT_IDX_DHE, CS_TXT_IDX_RSA, CS_TXT_IDX_AES256, CS_TXT_IDX_SHA256, CS_TXT_IDX_, CS_TXT_IDX_, CS_TXT_IDX_, CS_TXT_IDX_>>,  \* 0x006B
    <<140, CS_TXT_IDX_TLS, CS_TXT_IDX_PSK, CS_TXT_IDX_WITH, CS_TXT_IDX_AES, CS_TXT_IDX_128, CS_TXT_IDX_CBC, CS_TXT_IDX_SHA, CS_TXT_IDX_>>,  \* 0x008C
    <<140, CS_TXT_IDX_PSK, CS_TXT_IDX_AES128, CS_TXT_IDX_CBC, CS_TXT_IDX_SHA, CS_TXT_IDX_, CS_TXT_IDX_, CS_TXT_IDX_, CS_TXT_IDX_>>,  \* 0x008C
    <<141, CS_TXT_IDX_TLS, CS_TXT_IDX_PSK, CS_TXT_IDX_WITH, CS_TXT_IDX_AES, CS_TXT_IDX_256, CS_TXT_IDX_CBC, CS_TXT_IDX_SHA, CS_TXT_IDX_>>,  \* 0x008D
    <<141, CS_TXT_IDX_PSK, CS_TXT_IDX_AES256, CS_TXT_IDX_CBC, CS_TXT_IDX_SHA, CS_TXT_IDX_, CS_TXT_IDX_, CS_TXT_IDX_, CS_TXT_IDX_>>,  \* 0x008D
    <<144, CS_TXT_IDX_TLS, CS_TXT_IDX_DHE, CS_TXT_IDX_PSK, CS_TXT_IDX_WITH, CS_TXT_IDX_AES, CS_TXT_IDX_128, CS_TXT_IDX_CBC, CS_TXT_IDX_SHA>>,  \* 0x0090
    <<144, CS_TXT_IDX_DHE, CS_TXT_IDX_PSK, CS_TXT_IDX_AES128, CS_TXT_IDX_CBC, CS_TXT_IDX_SHA, CS_TXT_IDX_, CS_TXT_IDX_, CS_TXT_IDX_>>,  \* 0x0090
    <<145, CS_TXT_IDX_TLS, CS_TXT_IDX_DHE, CS_TXT_IDX_PSK, CS_TXT_IDX_WITH, CS_TXT_IDX_AES, CS_TXT_IDX_256, CS_TXT_IDX_CBC, CS_TXT_IDX_SHA>>,  \* 0x0091
    <<145, CS_TXT_IDX_DHE, CS_TXT_IDX_PSK, CS_TXT_IDX_AES256, CS_TXT_IDX_CBC, CS_TXT_IDX_SHA, CS_TXT_IDX_, CS_TXT_IDX_, CS_TXT_IDX_>>,  \* 0x0091
    <<148, CS_TXT_IDX_TLS, CS_TXT_IDX_RSA, CS_TXT_IDX_PSK, CS_TXT_IDX_WITH, CS_TXT_IDX_AES, CS_TXT_IDX_128, CS_TXT_IDX_CBC, CS_TXT_IDX_SHA>>,  \* 0x0094
    <<148, CS_TXT_IDX_RSA, CS_TXT_IDX_PSK, CS_TXT_IDX_AES128, CS_TXT_IDX_CBC, CS_TXT_IDX_SHA, CS_TXT_IDX_, CS_TXT_IDX_, CS_TXT_IDX_>>,  \* 0x0094
    <<149, CS_TXT_IDX_TLS, CS_TXT_IDX_RSA, CS_TXT_IDX_PSK, CS_TXT_IDX_WITH, CS_TXT_IDX_AES, CS_TXT_IDX_256, CS_TXT_IDX_CBC, CS_TXT_IDX_SHA>>,  \* 0x0095
    <<149, CS_TXT_IDX_RSA, CS_TXT_IDX_PSK, CS_TXT_IDX_AES256, CS_TXT_IDX_CBC, CS_TXT_IDX_SHA, CS_TXT_IDX_, CS_TXT_IDX_, CS_TXT_IDX_>>,  \* 0x0095
    <<158, CS_TXT_IDX_TLS, CS_TXT_IDX_DHE, CS_TXT_IDX_RSA, CS_TXT_IDX_WITH, CS_TXT_IDX_AES, CS_TXT_IDX_128, CS_TXT_IDX_GCM, CS_TXT_IDX_SHA256>>,  \* 0x009E
    <<158, CS_TXT_IDX_DHE, CS_TXT_IDX_RSA, CS_TXT_IDX_AES128, CS_TXT_IDX_GCM, CS_TXT_IDX_SHA256, CS_TXT_IDX_, CS_TXT_IDX_, CS_TXT_IDX_>>,  \* 0x009E
    <<159, CS_TXT_IDX_TLS, CS_TXT_IDX_DHE, CS_TXT_IDX_RSA, CS_TXT_IDX_WITH, CS_TXT_IDX_AES, CS_TXT_IDX_256, CS_TXT_IDX_GCM, CS_TXT_IDX_SHA384>>,  \* 0x009F
    <<159, CS_TXT_IDX_DHE, CS_TXT_IDX_RSA, CS_TXT_IDX_AES256, CS_TXT_IDX_GCM, CS_TXT_IDX_SHA384, CS_TXT_IDX_, CS_TXT_IDX_, CS_TXT_IDX_>>,  \* 0x009F
    <<168, CS_TXT_IDX_TLS, CS_TXT_IDX_PSK, CS_TXT_IDX_WITH, CS_TXT_IDX_AES, CS_TXT_IDX_128, CS_TXT_IDX_GCM, CS_TXT_IDX_SHA256, CS_TXT_IDX_>>,  \* 0x00A8
    <<168, CS_TXT_IDX_PSK, CS_TXT_IDX_AES128, CS_TXT_IDX_GCM, CS_TXT_IDX_SHA256, CS_TXT_IDX_, CS_TXT_IDX_, CS_TXT_IDX_, CS_TXT_IDX_>>,  \* 0x00A8
    <<169, CS_TXT_IDX_TLS, CS_TXT_IDX_PSK, CS_TXT_IDX_WITH, CS_TXT_IDX_AES, CS_TXT_IDX_256, CS_TXT_IDX_GCM, CS_TXT_IDX_SHA384, CS_TXT_IDX_>>,  \* 0x00A9
    <<169, CS_TXT_IDX_PSK, CS_TXT_IDX_AES256, CS_TXT_IDX_GCM, CS_TXT_IDX_SHA384, CS_TXT_IDX_, CS_TXT_IDX_, CS_TXT_IDX_, CS_TXT_IDX_>>,  \* 0x00A9
    <<170, CS_TXT_IDX_TLS, CS_TXT_IDX_DHE, CS_TXT_IDX_PSK, CS_TXT_IDX_WITH, CS_TXT_IDX_AES, CS_TXT_IDX_128, CS_TXT_IDX_GCM, CS_TXT_IDX_SHA256>>,  \* 0x00AA
    <<170, CS_TXT_IDX_DHE, CS_TXT_IDX_PSK, CS_TXT_IDX_AES128, CS_TXT_IDX_GCM, CS_TXT_IDX_SHA256, CS_TXT_IDX_, CS_TXT_IDX_, CS_TXT_IDX_>>,  \* 0x00AA
    <<171, CS_TXT_IDX_TLS, CS_TXT_IDX_DHE, CS_TXT_IDX_PSK, CS_TXT_IDX_WITH, CS_TXT_IDX_AES, CS_TXT_IDX_256, CS_TXT_IDX_GCM, CS_TXT_IDX_SHA384>>,  \* 0x00AB
    <<171, CS_TXT_IDX_DHE, CS_TXT_IDX_PSK, CS_TXT_IDX_AES256, CS_TXT_IDX_GCM, CS_TXT_IDX_SHA384, CS_TXT_IDX_, CS_TXT_IDX_, CS_TXT_IDX_>>,  \* 0x00AB
    <<172, CS_TXT_IDX_TLS, CS_TXT_IDX_RSA, CS_TXT_IDX_PSK, CS_TXT_IDX_WITH, CS_TXT_IDX_AES, CS_TXT_IDX_128, CS_TXT_IDX_GCM, CS_TXT_IDX_SHA256>>,  \* 0x00AC
    <<172, CS_TXT_IDX_RSA, CS_TXT_IDX_PSK, CS_TXT_IDX_AES128, CS_TXT_IDX_GCM, CS_TXT_IDX_SHA256, CS_TXT_IDX_, CS_TXT_IDX_, CS_TXT_IDX_>>,  \* 0x00AC
    <<173, CS_TXT_IDX_TLS, CS_TXT_IDX_RSA, CS_TXT_IDX_PSK, CS_TXT_IDX_WITH, CS_TXT_IDX_AES, CS_TXT_IDX_256, CS_TXT_IDX_GCM, CS_TXT_IDX_SHA384>>,  \* 0x00AD
    <<173, CS_TXT_IDX_RSA, CS_TXT_IDX_PSK, CS_TXT_IDX_AES256, CS_TXT_IDX_GCM, CS_TXT_IDX_SHA384, CS_TXT_IDX_, CS_TXT_IDX_, CS_TXT_IDX_>>,  \* 0x00AD
    <<174, CS_TXT_IDX_TLS, CS_TXT_IDX_PSK, CS_TXT_IDX_WITH, CS_TXT_IDX_AES, CS_TXT_IDX_128, CS_TXT_IDX_CBC, CS_TXT_IDX_SHA256, CS_TXT_IDX_>>,  \* 0x00AE
    <<174, CS_TXT_IDX_PSK, CS_TXT_IDX_AES128, CS_TXT_IDX_CBC, CS_TXT_IDX_SHA256, CS_TXT_IDX_, CS_TXT_IDX_, CS_TXT_IDX_, CS_TXT_IDX_>>,  \* 0x00AE
    <<175, CS_TXT_IDX_TLS, CS_TXT_IDX_PSK, CS_TXT_IDX_WITH, CS_TXT_IDX_AES, CS_TXT_IDX_256, CS_TXT_IDX_CBC, CS_TXT_IDX_SHA384, CS_TXT_IDX_>>,  \* 0x00AF
    <<175, CS_TXT_IDX_PSK, CS_TXT_IDX_AES256, CS_TXT_IDX_CBC, CS_TXT_IDX_SHA384, CS_TXT_IDX_, CS_TXT_IDX_, CS_TXT_IDX_, CS_TXT_IDX_>>,  \* 0x00AF
    <<176, CS_TXT_IDX_TLS, CS_TXT_IDX_PSK, CS_TXT_IDX_WITH, CS_TXT_IDX_NULL, CS_TXT_IDX_SHA256, CS_TXT_IDX_, CS_TXT_IDX_, CS_TXT_IDX_>>,  \* 0x00B0
    <<176, CS_TXT_IDX_PSK, CS_TXT_IDX_NULL, CS_TXT_IDX_SHA256, CS_TXT_IDX_, CS_TXT_IDX_, CS_TXT_IDX_, CS_TXT_IDX_, CS_TXT_IDX_>>,  \* 0x00B0
    <<177, CS_TXT_IDX_TLS, CS_TXT_IDX_PSK, CS_TXT_IDX_WITH, CS_TXT_IDX_NULL, CS_TXT_IDX_SHA384, CS_TXT_IDX_, CS_TXT_IDX_, CS_TXT_IDX_>>,  \* 0x00B1
    <<177, CS_TXT_IDX_PSK, CS_TXT_IDX_NULL, CS_TXT_IDX_SHA384, CS_TXT_IDX_, CS_TXT_IDX_, CS_TXT_IDX_, CS_TXT_IDX_, CS_TXT_IDX_>>,  \* 0x00B1
    <<178, CS_TXT_IDX_TLS, CS_TXT_IDX_DHE, CS_TXT_IDX_PSK, CS_TXT_IDX_WITH, CS_TXT_IDX_AES, CS_TXT_IDX_128, CS_TXT_IDX_CBC, CS_TXT_IDX_SHA256>>,  \* 0x00B2
    <<178, CS_TXT_IDX_DHE, CS_TXT_IDX_PSK, CS_TXT_IDX_AES128, CS_TXT_IDX_CBC, CS_TXT_IDX_SHA256, CS_TXT_IDX_, CS_TXT_IDX_, CS_TXT_IDX_>>,  \* 0x00B2
    <<179, CS_TXT_IDX_TLS, CS_TXT_IDX_DHE, CS_TXT_IDX_PSK, CS_TXT_IDX_WITH, CS_TXT_IDX_AES, CS_TXT_IDX_256, CS_TXT_IDX_CBC, CS_TXT_IDX_SHA384>>,  \* 0x00B3
    <<179, CS_TXT_IDX_DHE, CS_TXT_IDX_PSK, CS_TXT_IDX_AES256, CS_TXT_IDX_CBC, CS_TXT_IDX_SHA384, CS_TXT_IDX_, CS_TXT_IDX_, CS_TXT_IDX_>>,  \* 0x00B3
    <<180, CS_TXT_IDX_TLS, CS_TXT_IDX_DHE, CS_TXT_IDX_PSK, CS_TXT_IDX_WITH, CS_TXT_IDX_NULL, CS_TXT_IDX_SHA256, CS_TXT_IDX_, CS_TXT_IDX_>>,  \* 0x00B4
    <<180, CS_TXT_IDX_DHE, CS_TXT_IDX_PSK, CS_TXT_IDX_NULL, CS_TXT_IDX_SHA256, CS_TXT_IDX_, CS_TXT_IDX_, CS_TXT_IDX_, CS_TXT_IDX_>>,  \* 0x00B4
    <<181, CS_TXT_IDX_TLS, CS_TXT_IDX_DHE, CS_TXT_IDX_PSK, CS_TXT_IDX_WITH, CS_TXT_IDX_NULL, CS_TXT_IDX_SHA384, CS_TXT_IDX_, CS_TXT_IDX_>>,  \* 0x00B5
    <<181, CS_TXT_IDX_DHE, CS_TXT_IDX_PSK, CS_TXT_IDX_NULL, CS_TXT_IDX_SHA384, CS_TXT_IDX_, CS_TXT_IDX_, CS_TXT_IDX_, CS_TXT_IDX_>>,  \* 0x00B5
    <<182, CS_TXT_IDX_TLS, CS_TXT_IDX_RSA, CS_TXT_IDX_PSK, CS_TXT_IDX_WITH, CS_TXT_IDX_AES, CS_TXT_IDX_128, CS_TXT_IDX_CBC, CS_TXT_IDX_SHA256>>,  \* 0x00B6
    <<182, CS_TXT_IDX_RSA, CS_TXT_IDX_PSK, CS_TXT_IDX_AES128, CS_TXT_IDX_CBC, CS_TXT_IDX_SHA256, CS_TXT_IDX_, CS_TXT_IDX_, CS_TXT_IDX_>>,  \* 0x00B6
    <<183, CS_TXT_IDX_TLS, CS_TXT_IDX_RSA, CS_TXT_IDX_PSK, CS_TXT_IDX_WITH, CS_TXT_IDX_AES, CS_TXT_IDX_256, CS_TXT_IDX_CBC, CS_TXT_IDX_SHA384>>,  \* 0x00B7
    <<183, CS_TXT_IDX_RSA, CS_TXT_IDX_PSK, CS_TXT_IDX_AES256, CS_TXT_IDX_CBC, CS_TXT_IDX_SHA384, CS_TXT_IDX_, CS_TXT_IDX_, CS_TXT_IDX_>>,  \* 0x00B7
    <<184, CS_TXT_IDX_TLS, CS_TXT_IDX_RSA, CS_TXT_IDX_PSK, CS_TXT_IDX_WITH, CS_TXT_IDX_NULL, CS_TXT_IDX_SHA256, CS_TXT_IDX_, CS_TXT_IDX_>>,  \* 0x00B8
    <<184, CS_TXT_IDX_RSA, CS_TXT_IDX_PSK, CS_TXT_IDX_NULL, CS_TXT_IDX_SHA256, CS_TXT_IDX_, CS_TXT_IDX_, CS_TXT_IDX_, CS_TXT_IDX_>>,  \* 0x00B8
    <<185, CS_TXT_IDX_TLS, CS_TXT_IDX_RSA, CS_TXT_IDX_PSK, CS_TXT_IDX_WITH, CS_TXT_IDX_NULL, CS_TXT_IDX_SHA384, CS_TXT_IDX_, CS_TXT_IDX_>>,  \* 0x00B9
    <<185, CS_TXT_IDX_RSA, CS_TXT_IDX_PSK, CS_TXT_IDX_NULL, CS_TXT_IDX_SHA384, CS_TXT_IDX_, CS_TXT_IDX_, CS_TXT_IDX_, CS_TXT_IDX_>>,  \* 0x00B9
    <<4865, CS_TXT_IDX_TLS, CS_TXT_IDX_AES, CS_TXT_IDX_128, CS_TXT_IDX_GCM, CS_TXT_IDX_SHA256, CS_TXT_IDX_, CS_TXT_IDX_, CS_TXT_IDX_>>,  \* 0x1301
    <<4866, CS_TXT_IDX_TLS, CS_TXT_IDX_AES, CS_TXT_IDX_256, CS_TXT_IDX_GCM, CS_TXT_IDX_SHA384, CS_TXT_IDX_, CS_TXT_IDX_, CS_TXT_IDX_>>,  \* 0x1302
    <<4867, CS_TXT_IDX_TLS, CS_TXT_IDX_CHACHA20, CS_TXT_IDX_POLY1305, CS_TXT_IDX_SHA256, CS_TXT_IDX_, CS_TXT_IDX_, CS_TXT_IDX_, CS_TXT_IDX_>>,  \* 0x1303
    <<4868, CS_TXT_IDX_TLS, CS_TXT_IDX_AES, CS_TXT_IDX_128, CS_TXT_IDX_CCM, CS_TXT_IDX_SHA256, CS_TXT_IDX_, CS_TXT_IDX_, CS_TXT_IDX_>>,  \* 0x1304
    <<4869, CS_TXT_IDX_TLS, CS_TXT_IDX_AES, CS_TXT_IDX_128, CS_TXT_IDX_CCM, CS_TXT_IDX_8, CS_TXT_IDX_SHA256, CS_TXT_IDX_, CS_TXT_IDX_>>,  \* 0x1305
    <<49153, CS_TXT_IDX_TLS, CS_TXT_IDX_ECDH, CS_TXT_IDX_ECDSA, CS_TXT_IDX_WITH, CS_TXT_IDX_NULL, CS_TXT_IDX_SHA, CS_TXT_IDX_, CS_TXT_IDX_>>,  \* 0xC001
    <<49153, CS_TXT_IDX_ECDH, CS_TXT_IDX_ECDSA, CS_TXT_IDX_NULL, CS_TXT_IDX_SHA, CS_TXT_IDX_, CS_TXT_IDX_, CS_TXT_IDX_, CS_TXT_IDX_>>,  \* 0xC001
    <<49158, CS_TXT_IDX_TLS, CS_TXT_IDX_ECDHE, CS_TXT_IDX_ECDSA, CS_TXT_IDX_WITH, CS_TXT_IDX_NULL, CS_TXT_IDX_SHA, CS_TXT_IDX_, CS_TXT_IDX_>>,  \* 0xC006
    <<49158, CS_TXT_IDX_ECDHE, CS_TXT_IDX_ECDSA, CS_TXT_IDX_NULL, CS_TXT_IDX_SHA, CS_TXT_IDX_, CS_TXT_IDX_, CS_TXT_IDX_, CS_TXT_IDX_>>,  \* 0xC006
    <<49163, CS_TXT_IDX_TLS, CS_TXT_IDX_ECDH, CS_TXT_IDX_RSA, CS_TXT_IDX_WITH, CS_TXT_IDX_NULL, CS_TXT_IDX_SHA, CS_TXT_IDX_, CS_TXT_IDX_>>,  \* 0xC00B
    <<49163, CS_TXT_IDX_ECDH, CS_TXT_IDX_RSA, CS_TXT_IDX_NULL, CS_TXT_IDX_SHA, CS_TXT_IDX_, CS_TXT_IDX_, CS_TXT_IDX_, CS_TXT_IDX_>>,  \* 0xC00B
    <<49168, CS_TXT_IDX_TLS, CS_TXT_IDX_ECDHE, CS_TXT_IDX_RSA, CS_TXT_IDX_WITH, CS_TXT_IDX_NULL, CS_TXT_IDX_SHA, CS_TXT_IDX_, CS_TXT_IDX_>>,  \* 0xC010
    <<49168, CS_TXT_IDX_ECDHE, CS_TXT_IDX_RSA, CS_TXT_IDX_NULL, CS_TXT_IDX_SHA, CS_TXT_IDX_, CS_TXT_IDX_, CS_TXT_IDX_, CS_TXT_IDX_>>,  \* 0xC010
    <<49205, CS_TXT_IDX_TLS, CS_TXT_IDX_ECDHE, CS_TXT_IDX_PSK, CS_TXT_IDX_WITH, CS_TXT_IDX_AES, CS_TXT_IDX_128, CS_TXT_IDX_CBC, CS_TXT_IDX_SHA>>,  \* 0xC035
    <<49205, CS_TXT_IDX_ECDHE, CS_TXT_IDX_PSK, CS_TXT_IDX_AES128, CS_TXT_IDX_CBC, CS_TXT_IDX_SHA, CS_TXT_IDX_, CS_TXT_IDX_, CS_TXT_IDX_>>,  \* 0xC035
    <<49206, CS_TXT_IDX_TLS, CS_TXT_IDX_ECDHE, CS_TXT_IDX_PSK, CS_TXT_IDX_WITH, CS_TXT_IDX_AES, CS_TXT_IDX_256, CS_TXT_IDX_CBC, CS_TXT_IDX_SHA>>,  \* 0xC036
    <<49206, CS_TXT_IDX_ECDHE, CS_TXT_IDX_PSK, CS_TXT_IDX_AES256, CS_TXT_IDX_CBC, CS_TXT_IDX_SHA, CS_TXT_IDX_, CS_TXT_IDX_, CS_TXT_IDX_>>,  \* 0xC036
    <<52395, CS_TXT_IDX_TLS, CS_TXT_IDX_PSK, CS_TXT_IDX_WITH, CS_TXT_IDX_CHACHA20, CS_TXT_IDX_POLY1305, CS_TXT_IDX_SHA256, CS_TXT_IDX_, CS_TXT_IDX_>>,  \* 0xCCAB
    <<52395, CS_TXT_IDX_PSK, CS_TXT_IDX_CHACHA20, CS_TXT_IDX_POLY1305, CS_TXT_IDX_, CS_TXT_IDX_, CS_TXT_IDX_, CS_TXT_IDX_, CS_TXT_IDX_>>,  \* 0xCCAB
    <<49308, CS_TXT_IDX_TLS, CS_TXT_IDX_RSA, CS_TXT_IDX_WITH, CS_TXT_IDX_AES, CS_TXT_IDX_128, CS_TXT_IDX_CCM, CS_TXT_IDX_, CS_TXT_IDX_>>,  \* 0xC09C
    <<49308, CS_TXT_IDX_AES128, CS_TXT_IDX_CCM, CS_TXT_IDX_, CS_TXT_IDX_, CS_TXT_IDX_, CS_TXT_IDX_, CS_TXT_IDX_, CS_TXT_IDX_>>,  \* 0xC09C
    <<49309, CS_TXT_IDX_TLS, CS_TXT_IDX_RSA, CS_TXT_IDX_WITH, CS_TXT_IDX_AES, CS_TXT_IDX_256, CS_TXT_IDX_CCM, CS_TXT_IDX_, CS_TXT_IDX_>>,  \* 0xC09D
    <<49309, CS_TXT_IDX_AES256, CS_TXT_IDX_CCM, CS_TXT_IDX_, CS_TXT_IDX_, CS_TXT_IDX_, CS_TXT_IDX_, CS_TXT_IDX_, CS_TXT_IDX_>>,  \* 0xC09D
    <<49312, CS_TXT_IDX_TLS, CS_TXT_IDX_RSA, CS_TXT_IDX_WITH, CS_TXT_IDX_AES, CS_TXT_IDX_128, CS_TXT_IDX_CCM, CS_TXT_IDX_8, CS_TXT_IDX_>>,  \* 0xC0A0
    <<49312, CS_TXT_IDX_AES128, CS_TXT_IDX_CCM8, CS_TXT_IDX_, CS_TXT_IDX_, CS_TXT_IDX_, CS_TXT_IDX_, CS_TXT_IDX_, CS_TXT_IDX_>>,  \* 0xC0A0
    <<49313, CS_TXT_IDX_TLS, CS_TXT_IDX_RSA, CS_TXT_IDX_WITH, CS_TXT_IDX_AES, CS_TXT_IDX_256, CS_TXT_IDX_CCM, CS_TXT_IDX_8, CS_TXT_IDX_>>,  \* 0xC0A1
    <<49313, CS_TXT_IDX_AES256, CS_TXT_IDX_CCM8, CS_TXT_IDX_, CS_TXT_IDX_, CS_TXT_IDX_, CS_TXT_IDX_, CS_TXT_IDX_, CS_TXT_IDX_>>,  \* 0xC0A1
    <<49324, CS_TXT_IDX_TLS, CS_TXT_IDX_ECDHE, CS_TXT_IDX_ECDSA, CS_TXT_IDX_WITH, CS_TXT_IDX_AES, CS_TXT_IDX_128, CS_TXT_IDX_CCM, CS_TXT_IDX_>>,  \* 0xC0AC
    <<49324, CS_TXT_IDX_ECDHE, CS_TXT_IDX_ECDSA, CS_TXT_IDX_AES128, CS_TXT_IDX_CCM, CS_TXT_IDX_, CS_TXT_IDX_, CS_TXT_IDX_, CS_TXT_IDX_>>,  \* 0xC0AC
    <<49325, CS_TXT_IDX_TLS, CS_TXT_IDX_ECDHE, CS_TXT_IDX_ECDSA, CS_TXT_IDX_WITH, CS_TXT_IDX_AES, CS_TXT_IDX_256, CS_TXT_IDX_CCM, CS_TXT_IDX_>>,  \* 0xC0AD
    <<49325, CS_TXT_IDX_ECDHE, CS_TXT_IDX_ECDSA, CS_TXT_IDX_AES256, CS_TXT_IDX_CCM, CS_TXT_IDX_, CS_TXT_IDX_, CS_TXT_IDX_, CS_TXT_IDX_>>,  \* 0xC0AD
    <<49326, CS_TXT_IDX_TLS, CS_TXT_IDX_ECDHE, CS_TXT_IDX_ECDSA, CS_TXT_IDX_WITH, CS_TXT_IDX_AES, CS_TXT_IDX_128, CS_TXT_IDX_CCM, CS_TXT_IDX_8>>,  \* 0xC0AE
    <<49326, CS_TXT_IDX_ECDHE, CS_TXT_IDX_ECDSA, CS_TXT_IDX_AES128, CS_TXT_IDX_CCM8, CS_TXT_IDX_, CS_TXT_IDX_, CS_TXT_IDX_, CS_TXT_IDX_>>,  \* 0xC0AE
    <<49327, CS_TXT_IDX_TLS, CS_TXT_IDX_ECDHE, CS_TXT_IDX_ECDSA, CS_TXT_IDX_WITH, CS_TXT_IDX_AES, CS_TXT_IDX_256, CS_TXT_IDX_CCM, CS_TXT_IDX_8>>,  \* 0xC0AF
    <<49327, CS_TXT_IDX_ECDHE, CS_TXT_IDX_ECDSA, CS_TXT_IDX_AES256, CS_TXT_IDX_CCM8, CS_TXT_IDX_, CS_TXT_IDX_, CS_TXT_IDX_, CS_TXT_IDX_>>,  \* 0xC0AF
    <<65, CS_TXT_IDX_TLS, CS_TXT_IDX_RSA, CS_TXT_IDX_WITH, CS_TXT_IDX_CAMELLIA, CS_TXT_IDX_128, CS_TXT_IDX_CBC, CS_TXT_IDX_SHA, CS_TXT_IDX_>>,  \* 0x0041
    <<65, CS_TXT_IDX_CAMELLIA128, CS_TXT_IDX_SHA, CS_TXT_IDX_, CS_TXT_IDX_, CS_TXT_IDX_, CS_TXT_IDX_, CS_TXT_IDX_, CS_TXT_IDX_>>,  \* 0x0041
    <<69, CS_TXT_IDX_TLS, CS_TXT_IDX_DHE, CS_TXT_IDX_RSA, CS_TXT_IDX_WITH, CS_TXT_IDX_CAMELLIA, CS_TXT_IDX_128, CS_TXT_IDX_CBC, CS_TXT_IDX_SHA>>,  \* 0x0045
    <<69, CS_TXT_IDX_DHE, CS_TXT_IDX_RSA, CS_TXT_IDX_CAMELLIA128, CS_TXT_IDX_SHA, CS_TXT_IDX_, CS_TXT_IDX_, CS_TXT_IDX_, CS_TXT_IDX_>>,  \* 0x0045
    <<132, CS_TXT_IDX_TLS, CS_TXT_IDX_RSA, CS_TXT_IDX_WITH, CS_TXT_IDX_CAMELLIA, CS_TXT_IDX_256, CS_TXT_IDX_CBC, CS_TXT_IDX_SHA, CS_TXT_IDX_>>,  \* 0x0084
    <<132, CS_TXT_IDX_CAMELLIA256, CS_TXT_IDX_SHA, CS_TXT_IDX_, CS_TXT_IDX_, CS_TXT_IDX_, CS_TXT_IDX_, CS_TXT_IDX_, CS_TXT_IDX_>>,  \* 0x0084
    <<136, CS_TXT_IDX_TLS, CS_TXT_IDX_DHE, CS_TXT_IDX_RSA, CS_TXT_IDX_WITH, CS_TXT_IDX_CAMELLIA, CS_TXT_IDX_256, CS_TXT_IDX_CBC, CS_TXT_IDX_SHA>>,  \* 0x0088
    <<136, CS_TXT_IDX_DHE, CS_TXT_IDX_RSA, CS_TXT_IDX_CAMELLIA256, CS_TXT_IDX_SHA, CS_TXT_IDX_, CS_TXT_IDX_, CS_TXT_IDX_, CS_TXT_IDX_>>,  \* 0x0088
    <<186, CS_TXT_IDX_TLS, CS_TXT_IDX_RSA, CS_TXT_IDX_WITH, CS_TXT_IDX_CAMELLIA, CS_TXT_IDX_128, CS_TXT_IDX_CBC, CS_TXT_IDX_SHA256, CS_TXT_IDX_>>,  \* 0x00BA
    <<186, CS_TXT_IDX_CAMELLIA128, CS_TXT_IDX_SHA256, CS_TXT_IDX_, CS_TXT_IDX_, CS_TXT_IDX_, CS_TXT_IDX_, CS_TXT_IDX_, CS_TXT_IDX_>>,  \* 0x00BA
    <<190, CS_TXT_IDX_TLS, CS_TXT_IDX_DHE, CS_TXT_IDX_RSA, CS_TXT_IDX_WITH, CS_TXT_IDX_CAMELLIA, CS_TXT_IDX_128, CS_TXT_IDX_CBC, CS_TXT_IDX_SHA256>>,  \* 0x00BE
    <<190, CS_TXT_IDX_DHE, CS_TXT_IDX_RSA, CS_TXT_IDX_CAMELLIA128, CS_TXT_IDX_SHA256, CS_TXT_IDX_, CS_TXT_IDX_, CS_TXT_IDX_, CS_TXT_IDX_>>,  \* 0x00BE
    <<192, CS_TXT_IDX_TLS, CS_TXT_IDX_RSA, CS_TXT_IDX_WITH, CS_TXT_IDX_CAMELLIA, CS_TXT_IDX_256, CS_TXT_IDX_CBC, CS_TXT_IDX_SHA256, CS_TXT_IDX_>>,  \* 0x00C0
    <<192, CS_TXT_IDX_CAMELLIA256, CS_TXT_IDX_SHA256, CS_TXT_IDX_, CS_TXT_IDX_, CS_TXT_IDX_, CS_TXT_IDX_, CS_TXT_IDX_, CS_TXT_IDX_>>,  \* 0x00C0
    <<196, CS_TXT_IDX_TLS, CS_TXT_IDX_DHE, CS_TXT_IDX_RSA, CS_TXT_IDX_WITH, CS_TXT_IDX_CAMELLIA, CS_TXT_IDX_256, CS_TXT_IDX_CBC, CS_TXT_IDX_SHA256>>,  \* 0x00C4
    <<196, CS_TXT_IDX_DHE, CS_TXT_IDX_RSA, CS_TXT_IDX_CAMELLIA256, CS_TXT_IDX_SHA256, CS_TXT_IDX_, CS_TXT_IDX_, CS_TXT_IDX_, CS_TXT_IDX_>>,  \* 0x00C4
    <<49207, CS_TXT_IDX_TLS, CS_TXT_IDX_ECDHE, CS_TXT_IDX_PSK, CS_TXT_IDX_WITH, CS_TXT_IDX_AES, CS_TXT_IDX_128, CS_TXT_IDX_CBC, CS_TXT_IDX_SHA256>>,  \* 0xC037
    <<49207, CS_TXT_IDX_ECDHE, CS_TXT_IDX_PSK, CS_TXT_IDX_AES128, CS_TXT_IDX_CBC, CS_TXT_IDX_SHA256, CS_TXT_IDX_, CS_TXT_IDX_, CS_TXT_IDX_>>,  \* 0xC037
    <<49208, CS_TXT_IDX_TLS, CS_TXT_IDX_ECDHE, CS_TXT_IDX_PSK, CS_TXT_IDX_WITH, CS_TXT_IDX_AES, CS_TXT_IDX_256, CS_TXT_IDX_CBC, CS_TXT_IDX_SHA384>>,  \* 0xC038
    <<49208, CS_TXT_IDX_ECDHE, CS_TXT_IDX_PSK, CS_TXT_IDX_AES256, CS_TXT_IDX_CBC, CS_TXT_IDX_SHA384, CS_TXT_IDX_, CS_TXT_IDX_, CS_TXT_IDX_>>,  \* 0xC038
    <<49209, CS_TXT_IDX_TLS, CS_TXT_IDX_ECDHE, CS_TXT_IDX_PSK, CS_TXT_IDX_WITH, CS_TXT_IDX_NULL, CS_TXT_IDX_SHA, CS_TXT_IDX_, CS_TXT_IDX_>>,  \* 0xC039
    <<49209, CS_TXT_IDX_ECDHE, CS_TXT_IDX_PSK, CS_TXT_IDX_NULL, CS_TXT_IDX_SHA, CS_TXT_IDX_, CS_TXT_IDX_, CS_TXT_IDX_, CS_TXT_IDX_>>,  \* 0xC039
    <<49210, CS_TXT_IDX_TLS, CS_TXT_IDX_ECDHE, CS_TXT_IDX_PSK, CS_TXT_IDX_WITH, CS_TXT_IDX_NULL, CS_TXT_IDX_SHA256, CS_TXT_IDX_, CS_TXT_IDX_>>,  \* 0xC03A
    <<49210, CS_TXT_IDX_ECDHE, CS_TXT_IDX_PSK, CS_TXT_IDX_NULL, CS_TXT_IDX_SHA256, CS_TXT_IDX_, CS_TXT_IDX_, CS_TXT_IDX_, CS_TXT_IDX_>>,  \* 0xC03A
    <<49211, CS_TXT_IDX_TLS, CS_TXT_IDX_ECDHE, CS_TXT_IDX_PSK, CS_TXT_IDX_WITH, CS_TXT_IDX_NULL, CS_TXT_IDX_SHA384, CS_TXT_IDX_, CS_TXT_IDX_>>,  \* 0xC03B
    <<49211, CS_TXT_IDX_ECDHE, CS_TXT_IDX_PSK, CS_TXT_IDX_NULL, CS_TXT_IDX_SHA384, CS_TXT_IDX_, CS_TXT_IDX_, CS_TXT_IDX_, CS_TXT_IDX_>>,  \* 0xC03B
    <<49212, CS_TXT_IDX_TLS, CS_TXT_IDX_RSA, CS_TXT_IDX_WITH, CS_TXT_IDX_ARIA, CS_TXT_IDX_128, CS_TXT_IDX_CBC, CS_TXT_IDX_SHA256, CS_TXT_IDX_>>,  \* 0xC03C
    <<49212, CS_TXT_IDX_ARIA128, CS_TXT_IDX_SHA256, CS_TXT_IDX_, CS_TXT_IDX_, CS_TXT_IDX_, CS_TXT_IDX_, CS_TXT_IDX_, CS_TXT_IDX_>>,  \* 0xC03C
    <<49213, CS_TXT_IDX_TLS, CS_TXT_IDX_RSA, CS_TXT_IDX_WITH, CS_TXT_IDX_ARIA, CS_TXT_IDX_256, CS_TXT_IDX_CBC, CS_TXT_IDX_SHA384, CS_TXT_IDX_>>,  \* 0xC03D
    <<49213, CS_TXT_IDX_ARIA256, CS_TXT_IDX_SHA384, CS_TXT_IDX_, CS_TXT_IDX_, CS_TXT_IDX_, CS_TXT_IDX_, CS_TXT_IDX_, CS_TXT_IDX_>>,  \* 0xC03D
    <<49220, CS_TXT_IDX_TLS, CS_TXT_IDX_DHE, CS_TXT_IDX_RSA, CS_TXT_IDX_WITH, CS_TXT_IDX_ARIA, CS_TXT_IDX_128, CS_TXT_IDX_CBC, CS_TXT_IDX_SHA256>>,  \* 0xC044
    <<49220, CS_TXT_IDX_DHE, CS_TXT_IDX_RSA, CS_TXT_IDX_ARIA128, CS_TXT_IDX_SHA256, CS_TXT_IDX_, CS_TXT_IDX_, CS_TXT_IDX_, CS_TXT_IDX_>>,  \* 0xC044
    <<49221, CS_TXT_IDX_TLS, CS_TXT_IDX_DHE, CS_TXT_IDX_RSA, CS_TXT_IDX_WITH, CS_TXT_IDX_ARIA, CS_TXT_IDX_256, CS_TXT_IDX_CBC, CS_TXT_IDX_SHA384>>,  \* 0xC045
    <<49221, CS_TXT_IDX_DHE, CS_TXT_IDX_RSA, CS_TXT_IDX_ARIA256, CS_TXT_IDX_SHA384, CS_TXT_IDX_, CS_TXT_IDX_, CS_TXT_IDX_, CS_TXT_IDX_>>,  \* 0xC045
    <<49224, CS_TXT_IDX_TLS, CS_TXT_IDX_ECDHE, CS_TXT_IDX_ECDSA, CS_TXT_IDX_WITH, CS_TXT_IDX_ARIA, CS_TXT_IDX_128, CS_TXT_IDX_CBC, CS_TXT_IDX_SHA256>>,  \* 0xC048
    <<49224, CS_TXT_IDX_ECDHE, CS_TXT_IDX_ECDSA, CS_TXT_IDX_ARIA128, CS_TXT_IDX_SHA256, CS_TXT_IDX_, CS_TXT_IDX_, CS_TXT_IDX_, CS_TXT_IDX_>>,  \* 0xC048
    <<49225, CS_TXT_IDX_TLS, CS_TXT_IDX_ECDHE, CS_TXT_IDX_ECDSA, CS_TXT_IDX_WITH, CS_TXT_IDX_ARIA, CS_TXT_IDX_256, CS_TXT_IDX_CBC, CS_TXT_IDX_SHA384>>,  \* 0xC049
    <<49225, CS_TXT_IDX_ECDHE, CS_TXT_IDX_ECDSA, CS_TXT_IDX_ARIA256, CS_TXT_IDX_SHA384, CS_TXT_IDX_, CS_TXT_IDX_, CS_TXT_IDX_, CS_TXT_IDX_>>,  \* 0xC049
    <<49226, CS_TXT_IDX_TLS, CS_TXT_IDX_ECDH, CS_TXT_IDX_ECDSA, CS_TXT_IDX_WITH, CS_TXT_IDX_ARIA, CS_TXT_IDX_128, CS_TXT_IDX_CBC, CS_TXT_IDX_SHA256>>,  \* 0xC04A
    <<49226, CS_TXT_IDX_ECDH, CS_TXT_IDX_ECDSA, CS_TXT_IDX_ARIA128, CS_TXT_IDX_SHA256, CS_TXT_IDX_, CS_TXT_IDX_, CS_TXT_IDX_, CS_TXT_IDX_>>,  \* 0xC04A
    <<49227, CS_TXT_IDX_TLS, CS_TXT_IDX_ECDH, CS_TXT_IDX_ECDSA, CS_TXT_IDX_WITH, CS_TXT_IDX_ARIA, CS_TXT_IDX_256, CS_TXT_IDX_CBC, CS_TXT_IDX_SHA384>>,  \* 0xC04B
    <<49227, CS_TXT_IDX_ECDH, CS_TXT_IDX_ECDSA, CS_TXT_IDX_ARIA256, CS_TXT_IDX_SHA384, CS_TXT_IDX_, CS_TXT_IDX_, CS_TXT_IDX_, CS_TXT_IDX_>>,  \* 0xC04B
    <<49228, CS_TXT_IDX_TLS, CS_TXT_IDX_ECDHE, CS_TXT_IDX_RSA, CS_TXT_IDX_WITH, CS_TXT_IDX_ARIA, CS_TXT_IDX_128, CS_TXT_IDX_CBC, CS_TXT_IDX_SHA256>>,  \* 0xC04C
    <<49228, CS_TXT_IDX_ECDHE, CS_TXT_IDX_ARIA128, CS_TXT_IDX_SHA256, CS_TXT_IDX_, CS_TXT_IDX_, CS_TXT_IDX_, CS_TXT_IDX_, CS_TXT_IDX_>>,  \* 0xC04C
    <<49229, CS_TXT_IDX_TLS, CS_TXT_IDX_ECDHE, CS_TXT_IDX_RSA, CS_TXT_IDX_WITH, CS_TXT_IDX_ARIA, CS_TXT_IDX_256, CS_TXT_IDX_CBC, CS_TXT_IDX_SHA384>>,  \* 0xC04D
    <<49229, CS_TXT_IDX_ECDHE, CS_TXT_IDX_ARIA256, CS_TXT_IDX_SHA384, CS_TXT_IDX_, CS_TXT_IDX_, CS_TXT_IDX_, CS_TXT_IDX_, CS_TXT_IDX_>>,  \* 0xC04D
    <<49230, CS_TXT_IDX_TLS, CS_TXT_IDX_ECDH, CS_TXT_IDX_RSA, CS_TXT_IDX_WITH, CS_TXT_IDX_ARIA, CS_TXT_IDX_128, CS_TXT_IDX_CBC, CS_TXT_IDX_SHA256>>,  \* 0xC04E
    <<49230, CS_TXT_IDX_ECDH, CS_TXT_IDX_ARIA128, CS_TXT_IDX_SHA256, CS_TXT_IDX_, CS_TXT_IDX_, CS_TXT_IDX_, CS_TXT_IDX_, CS_TXT_IDX_>>,  \* 0xC04E
    <<49231, CS_TXT_IDX_TLS, CS_TXT_IDX_ECDH, CS_TXT_IDX_RSA, CS_TXT_IDX_WITH, CS_TXT_IDX_ARIA, CS_TXT_IDX_256, CS_TXT_IDX_CBC, CS_TXT_IDX_SHA384>>,  \* 0xC04F
    <<49231, CS_TXT_IDX_ECDH, CS_TXT_IDX_ARIA256, CS_TXT_IDX_SHA384, CS_TXT_IDX_, CS_TXT_IDX_, CS_TXT_IDX_, CS_TXT_IDX_, CS_TXT_IDX_>>,  \* 0xC04F
    <<49232, CS_TXT_IDX_TLS, CS_TXT_IDX_RSA, CS_TXT_IDX_WITH, CS_TXT_IDX_ARIA, CS_TXT_IDX_128, CS_TXT_IDX_GCM, CS_TXT_IDX_SHA256, CS_TXT_IDX_>>,  \* 0xC050
    <<49232, CS_TXT_IDX_ARIA128, CS_TXT_IDX_GCM, CS_TXT_IDX_SHA256, CS_TXT_IDX_, CS_TXT_IDX_, CS_TXT_IDX_, CS_TXT_IDX_, CS_TXT_IDX_>>,  \* 0xC050
    <<49233, CS_TXT_IDX_TLS, CS_TXT_IDX_RSA, CS_TXT_IDX_WITH, CS_TXT_IDX_ARIA, CS_TXT_IDX_256, CS_TXT_IDX_GCM, CS_TXT_IDX_SHA384, CS_TXT_IDX_>>,  \* 0xC051
    <<49233, CS_TXT_IDX_ARIA256, CS_TXT_IDX_GCM, CS_TXT_IDX_SHA384, CS_TXT_IDX_, CS_TXT_IDX_, CS_TXT_IDX_, CS_TXT_IDX_, CS_TXT_IDX_>>,  \* 0xC051
    <<49234, CS_TXT_IDX_TLS, CS_TXT_IDX_DHE, CS_TXT_IDX_RSA, CS_TXT_IDX_WITH, CS_TXT_IDX_ARIA, CS_TXT_IDX_128, CS_TXT_IDX_GCM, CS_TXT_IDX_SHA256>>,  \* 0xC052
    <<49234, CS_TXT_IDX_DHE, CS_TXT_IDX_RSA, CS_TXT_IDX_ARIA128, CS_TXT_IDX_GCM, CS_TXT_IDX_SHA256, CS_TXT_IDX_, CS_TXT_IDX_, CS_TXT_IDX_>>,  \* 0xC052
    <<49235, CS_TXT_IDX_TLS, CS_TXT_IDX_DHE, CS_TXT_IDX_RSA, CS_TXT_IDX_WITH, CS_TXT_IDX_ARIA, CS_TXT_IDX_256, CS_TXT_IDX_GCM, CS_TXT_IDX_SHA384>>,  \* 0xC053
    <<49235, CS_TXT_IDX_DHE, CS_TXT_IDX_RSA, CS_TXT_IDX_ARIA256, CS_TXT_IDX_GCM, CS_TXT_IDX_SHA384, CS_TXT_IDX_, CS_TXT_IDX_, CS_TXT_IDX_>>,  \* 0xC053
    <<49244, CS_TXT_IDX_TLS, CS_TXT_IDX_ECDHE, CS_TXT_IDX_ECDSA, CS_TXT_IDX_WITH, CS_TXT_IDX_ARIA, CS_TXT_IDX_128, CS_TXT_IDX_GCM, CS_TXT_IDX_SHA256>>,  \* 0xC05C
    <<49244, CS_TXT_IDX_ECDHE, CS_TXT_IDX_ECDSA, CS_TXT_IDX_ARIA128, CS_TXT_IDX_GCM, CS_TXT_IDX_SHA256, CS_TXT_IDX_, CS_TXT_IDX_, CS_TXT_IDX_>>,  \* 0xC05C
    <<49245, CS_TXT_IDX_TLS, CS_TXT_IDX_ECDHE, CS_TXT_IDX_ECDSA, CS_TXT_IDX_WITH, CS_TXT_IDX_ARIA, CS_TXT_IDX_256, CS_TXT_IDX_GCM, CS_TXT_IDX_SHA384>>,  \* 0xC05D
    <<49245, CS_TXT_IDX_ECDHE, CS_TXT_IDX_ECDSA, CS_TXT_IDX_ARIA256, CS_TXT_IDX_GCM, CS_TXT_IDX_SHA384, CS_TXT_IDX_, CS_TXT_IDX_, CS_TXT_IDX_>>,  \* 0xC05D
    <<49246, CS_TXT_IDX_TLS, CS_TXT_IDX_ECDH, CS_TXT_IDX_ECDSA, CS_TXT_IDX_WITH, CS_TXT_IDX_ARIA, CS_TXT_IDX_128, CS_TXT_IDX_GCM, CS_TXT_IDX_SHA256>>,  \* 0xC05E
    <<49246, CS_TXT_IDX_ECDH, CS_TXT_IDX_ECDSA, CS_TXT_IDX_ARIA128, CS_TXT_IDX_GCM, CS_TXT_IDX_SHA256, CS_TXT_IDX_, CS_TXT_IDX_, CS_TXT_IDX_>>,  \* 0xC05E
    <<49247, CS_TXT_IDX_TLS, CS_TXT_IDX_ECDH, CS_TXT_IDX_ECDSA, CS_TXT_IDX_WITH, CS_TXT_IDX_ARIA, CS_TXT_IDX_256, CS_TXT_IDX_GCM, CS_TXT_IDX_SHA384>>,  \* 0xC05F
    <<49247, CS_TXT_IDX_ECDH, CS_TXT_IDX_ECDSA, CS_TXT_IDX_ARIA256, CS_TXT_IDX_GCM, CS_TXT_IDX_SHA384, CS_TXT_IDX_, CS_TXT_IDX_, CS_TXT_IDX_>>,  \* 0xC05F
    <<49248, CS_TXT_IDX_TLS, CS_TXT_IDX_ECDHE, CS_TXT_IDX_RSA, CS_TXT_IDX_WITH, CS_TXT_IDX_ARIA, CS_TXT_IDX_128, CS_TXT_IDX_GCM, CS_TXT_IDX_SHA256>>,  \* 0xC060
    <<49248, CS_TXT_IDX_ECDHE, CS_TXT_IDX_ARIA128, CS_TXT_IDX_GCM, CS_TXT_IDX_SHA256, CS_TXT_IDX_, CS_TXT_IDX_, CS_TXT_IDX_, CS_TXT_IDX_>>,  \* 0xC060
    <<49249, CS_TXT_IDX_TLS, CS_TXT_IDX_ECDHE, CS_TXT_IDX_RSA, CS_TXT_IDX_WITH, CS_TXT_IDX_ARIA, CS_TXT_IDX_256, CS_TXT_IDX_GCM, CS_TXT_IDX_SHA384>>,  \* 0xC061
    <<49249, CS_TXT_IDX_ECDHE, CS_TXT_IDX_ARIA256, CS_TXT_IDX_GCM, CS_TXT_IDX_SHA384, CS_TXT_IDX_, CS_TXT_IDX_, CS_TXT_IDX_, CS_TXT_IDX_>>,  \* 0xC061
    <<49250, CS_TXT_IDX_TLS, CS_TXT_IDX_ECDH, CS_TXT_IDX_RSA, CS_TXT_IDX_WITH, CS_TXT_IDX_ARIA, CS_TXT_IDX_128, CS_TXT_IDX_GCM, CS_TXT_IDX_SHA256>>,  \* 0xC062
    <<49250, CS_TXT_IDX_ECDH, CS_TXT_IDX_ARIA128, CS_TXT_IDX_GCM, CS_TXT_IDX_SHA256, CS_TXT_IDX_, CS_TXT_IDX_, CS_TXT_IDX_, CS_TXT_IDX_>>,  \* 0xC062
    <<49251, CS_TXT_IDX_TLS, CS_TXT_IDX_ECDH, CS_TXT_IDX_RSA, CS_TXT_IDX_WITH, CS_TXT_IDX_ARIA, CS_TXT_IDX_256, CS_TXT_IDX_GCM, CS_TXT_IDX_SHA384>>,  \* 0xC063
    <<49251, CS_TXT_IDX_ECDH, CS_TXT_IDX_ARIA256, CS_TXT_IDX_GCM, CS_TXT_IDX_SHA384, CS_TXT_IDX_, CS_TXT_IDX_, CS_TXT_IDX_, CS_TXT_IDX_>>,  \* 0xC063
    <<49252, CS_TXT_IDX_TLS, CS_TXT_IDX_PSK, CS_TXT_IDX_WITH, CS_TXT_IDX_ARIA, CS_TXT_IDX_128, CS_TXT_IDX_CBC, CS_TXT_IDX_SHA256, CS_TXT_IDX_>>,  \* 0xC064
    <<49252, CS_TXT_IDX_PSK, CS_TXT_IDX_ARIA128, CS_TXT_IDX_SHA256, CS_TXT_IDX_, CS_TXT_IDX_, CS_TXT_IDX_, CS_TXT_IDX_, CS_TXT_IDX_>>,  \* 0xC064
    <<49253, CS_TXT_IDX_TLS, CS_TXT_IDX_PSK, CS_TXT_IDX_WITH, CS_TXT_IDX_ARIA, CS_TXT_IDX_256, CS_TXT_IDX_CBC, CS_TXT_IDX_SHA384, CS_TXT_IDX_>>,  \* 0xC065
    <<49253, CS_TXT_IDX_PSK, CS_TXT_IDX_ARIA256, CS_TXT_IDX_SHA384, CS_TXT_IDX_, CS_TXT_IDX_, CS_TXT_IDX_, CS_TXT_IDX_, CS_TXT_IDX_>>,  \* 0xC065
    <<49254, CS_TXT_IDX_TLS, CS_TXT_IDX_DHE, CS_TXT_IDX_PSK, CS_TXT_IDX_WITH, CS_TXT_IDX_ARIA, CS_TXT_IDX_128, CS_TXT_IDX_CBC, CS_TXT_IDX_SHA256>>,  \* 0xC066
    <<49254, CS_TXT_IDX_DHE, CS_TXT_IDX_PSK, CS_TXT_IDX_ARIA128, CS_TXT_IDX_SHA256, CS_TXT_IDX_, CS_TXT_IDX_, CS_TXT_IDX_, CS_TXT_IDX_>>,  \* 0xC066
    <<49255, CS_TXT_IDX_TLS, CS_TXT_IDX_DHE, CS_TXT_IDX_PSK, CS_TXT_IDX_WITH, CS_TXT_IDX_ARIA, CS_TXT_IDX_256, CS_TXT_IDX_CBC, CS_TXT_IDX_SHA384>>,  \* 0xC067
    <<49255, CS_TXT_IDX_DHE, CS_TXT_IDX_PSK, CS_TXT_IDX_ARIA256, CS_TXT_IDX_SHA384, CS_TXT_IDX_, CS_TXT_IDX_, CS_TXT_IDX_, CS_TXT_IDX_>>,  \* 0xC067
    <<49256, CS_TXT_IDX_TLS, CS_TXT_IDX_RSA, CS_TXT_IDX_PSK, CS_TXT_IDX_WITH, CS_TXT_IDX_ARIA, CS_TXT_IDX_128, CS_TXT_IDX_CBC, CS_TXT_IDX_SHA256>>,  \* 0xC068
    <<49256, CS_TXT_IDX_RSA, CS_TXT_IDX_PSK, CS_TXT_IDX_ARIA128, CS_TXT_IDX_SHA256, CS_TXT_IDX_, CS_TXT_IDX_, CS_TXT_IDX_, CS_TXT_IDX_>>,  \* 0xC068
    <<49257, CS_TXT_IDX_TLS, CS_TXT_IDX_RSA, CS_TXT_IDX_PSK, CS_TXT_IDX_WITH, CS_TXT_IDX_ARIA, CS_TXT_IDX_256, CS_TXT_IDX_CBC, CS_TXT_IDX_SHA384>>,  \* 0xC069
    <<49257, CS_TXT_IDX_RSA, CS_TXT_IDX_PSK, CS_TXT_IDX_ARIA256, CS_TXT_IDX_SHA384, CS_TXT_IDX_, CS_TXT_IDX_, CS_TXT_IDX_, CS_TXT_IDX_>>,  \* 0xC069
    <<49258, CS_TXT_IDX_TLS, CS_TXT_IDX_PSK, CS_TXT_IDX_WITH, CS_TXT_IDX_ARIA, CS_TXT_IDX_128, CS_TXT_IDX_GCM, CS_TXT_IDX_SHA256, CS_TXT_IDX_>>,  \* 0xC06A
    <<49258, CS_TXT_IDX_PSK, CS_TXT_IDX_ARIA128, CS_TXT_IDX_GCM, CS_TXT_IDX_SHA256, CS_TXT_IDX_, CS_TXT_IDX_, CS_TXT_IDX_, CS_TXT_IDX_>>,  \* 0xC06A
    <<49259, CS_TXT_IDX_TLS, CS_TXT_IDX_PSK, CS_TXT_IDX_WITH, CS_TXT_IDX_ARIA, CS_TXT_IDX_256, CS_TXT_IDX_GCM, CS_TXT_IDX_SHA384, CS_TXT_IDX_>>,  \* 0xC06B
    <<49259, CS_TXT_IDX_PSK, CS_TXT_IDX_ARIA256, CS_TXT_IDX_GCM, CS_TXT_IDX_SHA384, CS_TXT_IDX_, CS_TXT_IDX_, CS_TXT_IDX_, CS_TXT_IDX_>>,  \* 0xC06B
    <<49260, CS_TXT_IDX_TLS, CS_TXT_IDX_DHE, CS_TXT_IDX_PSK, CS_TXT_IDX_WITH, CS_TXT_IDX_ARIA, CS_TXT_IDX_128, CS_TXT_IDX_GCM, CS_TXT_IDX_SHA256>>,  \* 0xC06C
    <<49260, CS_TXT_IDX_DHE, CS_TXT_IDX_PSK, CS_TXT_IDX_ARIA128, CS_TXT_IDX_GCM, CS_TXT_IDX_SHA256, CS_TXT_IDX_, CS_TXT_IDX_, CS_TXT_IDX_>>,  \* 0xC06C
    <<49261, CS_TXT_IDX_TLS, CS_TXT_IDX_DHE, CS_TXT_IDX_PSK, CS_TXT_IDX_WITH, CS_TXT_IDX_ARIA, CS_TXT_IDX_256, CS_TXT_IDX_GCM, CS_TXT_IDX_SHA384>>,  \* 0xC06D
    <<49261, CS_TXT_IDX_DHE, CS_TXT_IDX_PSK, CS_TXT_IDX_ARIA256, CS_TXT_IDX_GCM, CS_TXT_IDX_SHA384, CS_TXT_IDX_, CS_TXT_IDX_, CS_TXT_IDX_>>,  \* 0xC06D
    <<49262, CS_TXT_IDX_TLS, CS_TXT_IDX_RSA, CS_TXT_IDX_PSK, CS_TXT_IDX_WITH, CS_TXT_IDX_ARIA, CS_TXT_IDX_128, CS_TXT_IDX_GCM, CS_TXT_IDX_SHA256>>,  \* 0xC06E
    <<49262, CS_TXT_IDX_RSA, CS_TXT_IDX_PSK, CS_TXT_IDX_ARIA128, CS_TXT_IDX_GCM, CS_TXT_IDX_SHA256, CS_TXT_IDX_, CS_TXT_IDX_, CS_TXT_IDX_>>,  \* 0xC06E
    <<49263, CS_TXT_IDX_TLS, CS_TXT_IDX_RSA, CS_TXT_IDX_PSK, CS_TXT_IDX_WITH, CS_TXT_IDX_ARIA, CS_TXT_IDX_256, CS_TXT_IDX_GCM, CS_TXT_IDX_SHA384>>,  \* 0xC06F
    <<49263, CS_TXT_IDX_RSA, CS_TXT_IDX_PSK, CS_TXT_IDX_ARIA256, CS_TXT_IDX_GCM, CS_TXT_IDX_SHA384, CS_TXT_IDX_, CS_TXT_IDX_, CS_TXT_IDX_>>,  \* 0xC06F
    <<49264, CS_TXT_IDX_TLS, CS_TXT_IDX_ECDHE, CS_TXT_IDX_PSK, CS_TXT_IDX_WITH, CS_TXT_IDX_ARIA, CS_TXT_IDX_128, CS_TXT_IDX_CBC, CS_TXT_IDX_SHA256>>,  \* 0xC070
    <<49264, CS_TXT_IDX_ECDHE, CS_TXT_IDX_PSK, CS_TXT_IDX_ARIA128, CS_TXT_IDX_SHA256, CS_TXT_IDX_, CS_TXT_IDX_, CS_TXT_IDX_, CS_TXT_IDX_>>,  \* 0xC070
    <<49265, CS_TXT_IDX_TLS, CS_TXT_IDX_ECDHE, CS_TXT_IDX_PSK, CS_TXT_IDX_WITH, CS_TXT_IDX_ARIA, CS_TXT_IDX_256, CS_TXT_IDX_CBC, CS_TXT_IDX_SHA384>>,  \* 0xC071
    <<49265, CS_TXT_IDX_ECDHE, CS_TXT_IDX_PSK, CS_TXT_IDX_ARIA256, CS_TXT_IDX_SHA384, CS_TXT_IDX_, CS_TXT_IDX_, CS_TXT_IDX_, CS_TXT_IDX_>>,  \* 0xC071
    <<49266, CS_TXT_IDX_TLS, CS_TXT_IDX_ECDHE, CS_TXT_IDX_ECDSA, CS_TXT_IDX_WITH, CS_TXT_IDX_CAMELLIA, CS_TXT_IDX_128, CS_TXT_IDX_CBC, CS_TXT_IDX_SHA256>>,  \* 0xC072
    <<49266, CS_TXT_IDX_ECDHE, CS_TXT_IDX_ECDSA, CS_TXT_IDX_CAMELLIA128, CS_TXT_IDX_SHA256, CS_TXT_IDX_, CS_TXT_IDX_, CS_TXT_IDX_, CS_TXT_IDX_>>,  \* 0xC072
    <<49267, CS_TXT_IDX_TLS, CS_TXT_IDX_ECDHE, CS_TXT_IDX_ECDSA, CS_TXT_IDX_WITH, CS_TXT_IDX_CAMELLIA, CS_TXT_IDX_256, CS_TXT_IDX_CBC, CS_TXT_IDX_SHA384>>,  \* 0xC073
    <<49267, CS_TXT_IDX_ECDHE, CS_TXT_IDX_ECDSA, CS_TXT_IDX_CAMELLIA256, CS_TXT_IDX_SHA384, CS_TXT_IDX_, CS_TXT_IDX_, CS_TXT_IDX_, CS_TXT_IDX_>>,  \* 0xC073
    <<49268, CS_TXT_IDX_TLS, CS_TXT_IDX_ECDH, CS_TXT_IDX_ECDSA, CS_TXT_IDX_WITH, CS_TXT_IDX_CAMELLIA, CS_TXT_IDX_128, CS_TXT_IDX_CBC, CS_TXT_IDX_SHA256>>,  \* 0xC074
    <<49268, CS_TXT_IDX_ECDH, CS_TXT_IDX_ECDSA, CS_TXT_IDX_CAMELLIA128, CS_TXT_IDX_SHA256, CS_TXT_IDX_, CS_TXT_IDX_, CS_TXT_IDX_, CS_TXT_IDX_>>,  \* 0xC074
    <<49269, CS_TXT_IDX_TLS, CS_TXT_IDX_ECDH, CS_TXT_IDX_ECDSA, CS_TXT_IDX_WITH, CS_TXT_IDX_CAMELLIA, CS_TXT_IDX_256, CS_TXT_IDX_CBC, CS_TXT_IDX_SHA384>>,  \* 0xC075
    <<49269, CS_TXT_IDX_ECDH, CS_TXT_IDX_ECDSA, CS_TXT_IDX_CAMELLIA256, CS_TXT_IDX_SHA384, CS_TXT_IDX_, CS_TXT_IDX_, CS_TXT_IDX_, CS_TXT_IDX_>>,  \* 0xC075
    <<49270, CS_TXT_IDX_TLS, CS_TXT_IDX_ECDHE, CS_TXT_IDX_RSA, CS_TXT_IDX_WITH, CS_TXT_IDX_CAMELLIA, CS_TXT_IDX_128, CS_TXT_IDX_CBC, CS_TXT_IDX_SHA256>>,  \* 0xC076
    <<49270, CS_TXT_IDX_ECDHE, CS_TXT_IDX_RSA, CS_TXT_IDX_CAMELLIA128, CS_TXT_IDX_SHA256, CS_TXT_IDX_, CS_TXT_IDX_, CS_TXT_IDX_, CS_TXT_IDX_>>,  \* 0xC076
    <<49271, CS_TXT_IDX_TLS, CS_TXT_IDX_ECDHE, CS_TXT_IDX_RSA, CS_TXT_IDX_WITH, CS_TXT_IDX_CAMELLIA, CS_TXT_IDX_256, CS_TXT_IDX_CBC, CS_TXT_IDX_SHA384>>,  \* 0xC077
    <<49271, CS_TXT_IDX_ECDHE, CS_TXT_IDX_RSA, CS_TXT_IDX_CAMELLIA256, CS_TXT_IDX_SHA384, CS_TXT_IDX_, CS_TXT_IDX_, CS_TXT_IDX_, CS_TXT_IDX_>>,  \* 0xC077
    <<49272, CS_TXT_IDX_TLS, CS_TXT_IDX_ECDH, CS_TXT_IDX_RSA, CS_TXT_IDX_WITH, CS_TXT_IDX_CAMELLIA, CS_TXT_IDX_128, CS_TXT_IDX_CBC, CS_TXT_IDX_SHA256>>,  \* 0xC078
    <<49272, CS_TXT_IDX_ECDH, CS_TXT_IDX_CAMELLIA128, CS_TXT_IDX_SHA256, CS_TXT_IDX_, CS_TXT_IDX_, CS_TXT_IDX_, CS_TXT_IDX_, CS_TXT_IDX_>>,  \* 0xC078
    <<49273, CS_TXT_IDX_TLS, CS_TXT_IDX_ECDH, CS_TXT_IDX_RSA, CS_TXT_IDX_WITH, CS_TXT_IDX_CAMELLIA, CS_TXT_IDX_256, CS_TXT_IDX_CBC, CS_TXT_IDX_SHA384>>,  \* 0xC079
    <<49273, CS_TXT_IDX_ECDH, CS_TXT_IDX_CAMELLIA256, CS_TXT_IDX_SHA384, CS_TXT_IDX_, CS_TXT_IDX_, CS_TXT_IDX_, CS_TXT_IDX_, CS_TXT_IDX_>>,  \* 0xC079
    <<49274, CS_TXT_IDX_TLS, CS_TXT_IDX_RSA, CS_TXT_IDX_WITH, CS_TXT_IDX_CAMELLIA, CS_TXT_IDX_128, CS_TXT_IDX_GCM, CS_TXT_IDX_SHA256, CS_TXT_IDX_>>,  \* 0xC07A
    <<49274, CS_TXT_IDX_CAMELLIA128, CS_TXT_IDX_GCM, CS_TXT_IDX_SHA256, CS_TXT_IDX_, CS_TXT_IDX_, CS_TXT_IDX_, CS_TXT_IDX_, CS_TXT_IDX_>>,  \* 0xC07A
    <<49275, CS_TXT_IDX_TLS, CS_TXT_IDX_RSA, CS_TXT_IDX_WITH, CS_TXT_IDX_CAMELLIA, CS_TXT_IDX_256, CS_TXT_IDX_GCM, CS_TXT_IDX_SHA384, CS_TXT_IDX_>>,  \* 0xC07B
    <<49275, CS_TXT_IDX_CAMELLIA256, CS_TXT_IDX_GCM, CS_TXT_IDX_SHA384, CS_TXT_IDX_, CS_TXT_IDX_, CS_TXT_IDX_, CS_TXT_IDX_, CS_TXT_IDX_>>,  \* 0xC07B
    <<49276, CS_TXT_IDX_TLS, CS_TXT_IDX_DHE, CS_TXT_IDX_RSA, CS_TXT_IDX_WITH, CS_TXT_IDX_CAMELLIA, CS_TXT_IDX_128, CS_TXT_IDX_GCM, CS_TXT_IDX_SHA256>>,  \* 0xC07C
    <<49276, CS_TXT_IDX_DHE, CS_TXT_IDX_RSA, CS_TXT_IDX_CAMELLIA128, CS_TXT_IDX_GCM, CS_TXT_IDX_SHA256, CS_TXT_IDX_, CS_TXT_IDX_, CS_TXT_IDX_>>,  \* 0xC07C
    <<49277, CS_TXT_IDX_TLS, CS_TXT_IDX_DHE, CS_TXT_IDX_RSA, CS_TXT_IDX_WITH, CS_TXT_IDX_CAMELLIA, CS_TXT_IDX_256, CS_TXT_IDX_GCM, CS_TXT_IDX_SHA384>>,  \* 0xC07D
    <<49277, CS_TXT_IDX_DHE, CS_TXT_IDX_RSA, CS_TXT_IDX_CAMELLIA256, CS_TXT_IDX_GCM, CS_TXT_IDX_SHA384, CS_TXT_IDX_, CS_TXT_IDX_, CS_TXT_IDX_>>,  \* 0xC07D
    <<49286, CS_TXT_IDX_TLS, CS_TXT_IDX_ECDHE, CS_TXT_IDX_ECDSA, CS_TXT_IDX_WITH, CS_TXT_IDX_CAMELLIA, CS_TXT_IDX_128, CS_TXT_IDX_GCM, CS_TXT_IDX_SHA256>>,  \* 0xC086
    <<49286, CS_TXT_IDX_ECDHE, CS_TXT_IDX_ECDSA, CS_TXT_IDX_CAMELLIA128, CS_TXT_IDX_GCM, CS_TXT_IDX_SHA256, CS_TXT_IDX_, CS_TXT_IDX_, CS_TXT_IDX_>>,  \* 0xC086
    <<49287, CS_TXT_IDX_TLS, CS_TXT_IDX_ECDHE, CS_TXT_IDX_ECDSA, CS_TXT_IDX_WITH, CS_TXT_IDX_CAMELLIA, CS_TXT_IDX_256, CS_TXT_IDX_GCM, CS_TXT_IDX_SHA384>>,  \* 0xC087
    <<49287, CS_TXT_IDX_ECDHE, CS_TXT_IDX_ECDSA, CS_TXT_IDX_CAMELLIA256, CS_TXT_IDX_GCM, CS_TXT_IDX_SHA384, CS_TXT_IDX_, CS_TXT_IDX_, CS_TXT_IDX_>>,  \* 0xC087
    <<49288, CS_TXT_IDX_TLS, CS_TXT_IDX_ECDH, CS_TXT_IDX_ECDSA, CS_TXT_IDX_WITH, CS_TXT_IDX_CAMELLIA, CS_TXT_IDX_128, CS_TXT_IDX_GCM, CS_TXT_IDX_SHA256>>,  \* 0xC088
    <<49288, CS_TXT_IDX_ECDH, CS_TXT_IDX_ECDSA, CS_TXT_IDX_CAMELLIA128, CS_TXT_IDX_GCM, CS_TXT_IDX_SHA256, CS_TXT_IDX_, CS_TXT_IDX_, CS_TXT_IDX_>>,  \* 0xC088
    <<49289, CS_TXT_IDX_TLS, CS_TXT_IDX_ECDH, CS_TXT_IDX_ECDSA, CS_TXT_IDX_WITH, CS_TXT_IDX_CAMELLIA, CS_TXT_IDX_256, CS_TXT_IDX_GCM, CS_TXT_IDX_SHA384>>,  \* 0xC089
    <<49289, CS_TXT_IDX_ECDH, CS_TXT_IDX_ECDSA, CS_TXT_IDX_CAMELLIA256, CS_TXT_IDX_GCM, CS_TXT_IDX_SHA384, CS_TXT_IDX_, CS_TXT_IDX_, CS_TXT_IDX_>>,  \* 0xC089
    <<49290, CS_TXT_IDX_TLS, CS_TXT_IDX_ECDHE, CS_TXT_IDX_RSA, CS_TXT_IDX_WITH, CS_TXT_IDX_CAMELLIA, CS_TXT_IDX_128, CS_TXT_IDX_GCM, CS_TXT_IDX_SHA256>>,  \* 0xC08A
    <<49290, CS_TXT_IDX_ECDHE, CS_TXT_IDX_CAMELLIA128, CS_TXT_IDX_GCM, CS_TXT_IDX_SHA256, CS_TXT_IDX_, CS_TXT_IDX_, CS_TXT_IDX_, CS_TXT_IDX_>>,  \* 0xC08A
    <<49291, CS_TXT_IDX_TLS, CS_TXT_IDX_ECDHE, CS_TXT_IDX_RSA, CS_TXT_IDX_WITH, CS_TXT_IDX_CAMELLIA, CS_TXT_IDX_256, CS_TXT_IDX_GCM, CS_TXT_IDX_SHA384>>,  \* 0xC08B
    <<49291, CS_TXT_IDX_ECDHE, CS_TXT_IDX_CAMELLIA256, CS_TXT_IDX_GCM, CS_TXT_IDX_SHA384, CS_TXT_IDX_, CS_TXT_IDX_, CS_TXT_IDX_, CS_TXT_IDX_>>,  \* 0xC08B
    <<49292, CS_TXT_IDX_TLS, CS_TXT_IDX_ECDH, CS_TXT_IDX_RSA, CS_TXT_IDX_WITH, CS_TXT_IDX_CAMELLIA, CS_TXT_IDX_128, CS_TXT_IDX_GCM, CS_TXT_IDX_SHA256>>,  \* 0xC08C
    <<49292, CS_TXT_IDX_ECDH, CS_TXT_IDX_CAMELLIA128, CS_TXT_IDX_GCM, CS_TXT_IDX_SHA256, CS_TXT_IDX_, CS_TXT_IDX_, CS_TXT_IDX_, CS_TXT_IDX_>>,  \* 0xC08C
    <<49293, CS_TXT_IDX_TLS, CS_TXT_IDX_ECDH, CS_TXT_IDX_RSA, CS_TXT_IDX_WITH, CS_TXT_IDX_CAMELLIA, CS_TXT_IDX_256, CS_TXT_IDX_GCM, CS_TXT_IDX_SHA384>>,  \* 0xC08D
    <<49293, CS_TXT_IDX_ECDH, CS_TXT_IDX_CAMELLIA256, CS_TXT_IDX_GCM, CS_TXT_IDX_SHA384, CS_TXT_IDX_, CS_TXT_IDX_, CS_TXT_IDX_, CS_TXT_IDX_>>,  \* 0xC08D
    <<49294, CS_TXT_IDX_TLS, CS_TXT_IDX_PSK, CS_TXT_IDX_WITH, CS_TXT_IDX_CAMELLIA, CS_TXT_IDX_128, CS_TXT_IDX_GCM, CS_TXT_IDX_SHA256, CS_TXT_IDX_>>,  \* 0xC08E
    <<49294, CS_TXT_IDX_PSK, CS_TXT_IDX_CAMELLIA128, CS_TXT_IDX_GCM, CS_TXT_IDX_SHA256, CS_TXT_IDX_, CS_TXT_IDX_, CS_TXT_IDX_, CS_TXT_IDX_>>,  \* 0xC08E
    <<49295, CS_TXT_IDX_TLS, CS_TXT_IDX_PSK, CS_TXT_IDX_WITH, CS_TXT_IDX_CAMELLIA, CS_TXT_IDX_256, CS_TXT_IDX_GCM, CS_TXT_IDX_SHA384, CS_TXT_IDX_>>,  \* 0xC08F
    <<49295, CS_TXT_IDX_PSK, CS_TXT_IDX_CAMELLIA256, CS_TXT_IDX_GCM, CS_TXT_IDX_SHA384, CS_TXT_IDX_, CS_TXT_IDX_, CS_TXT_IDX_, CS_TXT_IDX_>>,  \* 0xC08F
    <<49296, CS_TXT_IDX_TLS, CS_TXT_IDX_DHE, CS_TXT_IDX_PSK, CS_TXT_IDX_WITH, CS_TXT_IDX_CAMELLIA, CS_TXT_IDX_128, CS_TXT_IDX_GCM, CS_TXT_IDX_SHA256>>,  \* 0xC090
    <<49296, CS_TXT_IDX_DHE, CS_TXT_IDX_PSK, CS_TXT_IDX_CAMELLIA128, CS_TXT_IDX_GCM, CS_TXT_IDX_SHA256, CS_TXT_IDX_, CS_TXT_IDX_, CS_TXT_IDX_>>,  \* 0xC090
    <<49297, CS_TXT_IDX_TLS, CS_TXT_IDX_DHE, CS_TXT_IDX_PSK, CS_TXT_IDX_WITH, CS_TXT_IDX_CAMELLIA, CS_TXT_IDX_256, CS_TXT_IDX_GCM, CS_TXT_IDX_SHA384>>,  \* 0xC091
    <<49297, CS_TXT_IDX_DHE, CS_TXT_IDX_PSK, CS_TXT_IDX_CAMELLIA256, CS_TXT_IDX_GCM, CS_TXT_IDX_SHA384, CS_TXT_IDX_, CS_TXT_IDX_, CS_TXT_IDX_>>,  \* 0xC091
    <<49298, CS_TXT_IDX_TLS, CS_TXT_IDX_RSA, CS_TXT_IDX_PSK, CS_TXT_IDX_WITH, CS_TXT_IDX_CAMELLIA, CS_TXT_IDX_128, CS_TXT_IDX_GCM, CS_TXT_IDX_SHA256>>,  \* 0xC092
    <<49298, CS_TXT_IDX_RSA, CS_TXT_IDX_PSK, CS_TXT_IDX_CAMELLIA128, CS_TXT_IDX_GCM, CS_TXT_IDX_SHA256, CS_TXT_IDX_, CS_TXT_IDX_, CS_TXT_IDX_>>,  \* 0xC092
    <<49299, CS_TXT_IDX_TLS, CS_TXT_IDX_RSA, CS_TXT_IDX_PSK, CS_TXT_IDX_WITH, CS_TXT_IDX_CAMELLIA, CS_TXT_IDX_256, CS_TXT_IDX_GCM, CS_TXT_IDX_SHA384>>,  \* 0xC093
    <<49299, CS_TXT_IDX_RSA, CS_TXT_IDX_PSK, CS_TXT_IDX_CAMELLIA256, CS_TXT_IDX_GCM, CS_TXT_IDX_SHA384, CS_TXT_IDX_, CS_TXT_IDX_, CS_TXT_IDX_>>,  \* 0xC093
    <<49300, CS_TXT_IDX_TLS, CS_TXT_IDX_PSK, CS_TXT_IDX_WITH, CS_TXT_IDX_CAMELLIA, CS_TXT_IDX_128, CS_TXT_IDX_CBC, CS_TXT_IDX_SHA256, CS_TXT_IDX_>>,  \* 0xC094
    <<49300, CS_TXT_IDX_PSK, CS_TXT_IDX_CAMELLIA128, CS_TXT_IDX_SHA256, CS_TXT_IDX_, CS_TXT_IDX_, CS_TXT_IDX_, CS_TXT_IDX_, CS_TXT_IDX_>>,  \* 0xC094
    <<49301, CS_TXT_IDX_TLS, CS_TXT_IDX_PSK, CS_TXT_IDX_WITH, CS_TXT_IDX_CAMELLIA, CS_TXT_IDX_256, CS_TXT_IDX_CBC, CS_TXT_IDX_SHA384, CS_TXT_IDX_>>,  \* 0xC095
    <<49301, CS_TXT_IDX_PSK, CS_TXT_IDX_CAMELLIA256, CS_TXT_IDX_SHA384, CS_TXT_IDX_, CS_TXT_IDX_, CS_TXT_IDX_, CS_TXT_IDX_, CS_TXT_IDX_>>,  \* 0xC095
    <<49302, CS_TXT_IDX_TLS, CS_TXT_IDX_DHE, CS_TXT_IDX_PSK, CS_TXT_IDX_WITH, CS_TXT_IDX_CAMELLIA, CS_TXT_IDX_128, CS_TXT_IDX_CBC, CS_TXT_IDX_SHA256>>,  \* 0xC096
    <<49302, CS_TXT_IDX_DHE, CS_TXT_IDX_PSK, CS_TXT_IDX_CAMELLIA128, CS_TXT_IDX_SHA256, CS_TXT_IDX_, CS_TXT_IDX_, CS_TXT_IDX_, CS_TXT_IDX_>>,  \* 0xC096
    <<49303, CS_TXT_IDX_TLS, CS_TXT_IDX_DHE, CS_TXT_IDX_PSK, CS_TXT_IDX_WITH, CS_TXT_IDX_CAMELLIA, CS_TXT_IDX_256, CS_TXT_IDX_CBC, CS_TXT_IDX_SHA384>>,  \* 0xC097
    <<49303, CS_TXT_IDX_DHE, CS_TXT_IDX_PSK, CS_TXT_IDX_CAMELLIA256, CS_TXT_IDX_SHA384, CS_TXT_IDX_, CS_TXT_IDX_, CS_TXT_IDX_, CS_TXT_IDX_>>,  \* 0xC097
    <<49304, CS_TXT_IDX_TLS, CS_TXT_IDX_RSA, CS_TXT_IDX_PSK, CS_TXT_IDX_WITH, CS_TXT_IDX_CAMELLIA, CS_TXT_IDX_128, CS_TXT_IDX_CBC, CS_TXT_IDX_SHA256>>,  \* 0xC098
    <<49304, CS_TXT_IDX_RSA, CS_TXT_IDX_PSK, CS_TXT_IDX_CAMELLIA128, CS_TXT_IDX_SHA256, CS_TXT_IDX_, CS_TXT_IDX_, CS_TXT_IDX_, CS_TXT_IDX_>>,  \* 0xC098
    <<49305, CS_TXT_IDX_TLS, CS_TXT_IDX_RSA, CS_TXT_IDX_PSK, CS_TXT_IDX_WITH, CS_TXT_IDX_CAMELLIA, CS_TXT_IDX_256, CS_TXT_IDX_CBC, CS_TXT_IDX_SHA384>>,  \* 0xC099
    <<49305, CS_TXT_IDX_RSA, CS_TXT_IDX_PSK, CS_TXT_IDX_CAMELLIA256, CS_TXT_IDX_SHA384, CS_TXT_IDX_, CS_TXT_IDX_, CS_TXT_IDX_, CS_TXT_IDX_>>,  \* 0xC099
    <<49306, CS_TXT_IDX_TLS, CS_TXT_IDX_ECDHE, CS_TXT_IDX_PSK, CS_TXT_IDX_WITH, CS_TXT_IDX_CAMELLIA, CS_TXT_IDX_128, CS_TXT_IDX_CBC, CS_TXT_IDX_SHA256>>,  \* 0xC09A
    <<49306, CS_TXT_IDX_ECDHE, CS_TXT_IDX_PSK, CS_TXT_IDX_CAMELLIA128, CS_TXT_IDX_SHA256, CS_TXT_IDX_, CS_TXT_IDX_, CS_TXT_IDX_, CS_TXT_IDX_>>,  \* 0xC09A
    <<49307, CS_TXT_IDX_TLS, CS_TXT_IDX_ECDHE, CS_TXT_IDX_PSK, CS_TXT_IDX_WITH, CS_TXT_IDX_CAMELLIA, CS_TXT_IDX_256, CS_TXT_IDX_CBC, CS_TXT_IDX_SHA384>>,  \* 0xC09B
    <<49307, CS_TXT_IDX_ECDHE, CS_TXT_IDX_PSK, CS_TXT_IDX_CAMELLIA256, CS_TXT_IDX_SHA384, CS_TXT_IDX_, CS_TXT_IDX_, CS_TXT_IDX_, CS_TXT_IDX_>>,  \* 0xC09B
    <<49310, CS_TXT_IDX_TLS, CS_TXT_IDX_DHE, CS_TXT_IDX_RSA, CS_TXT_IDX_WITH, CS_TXT_IDX_AES, CS_TXT_IDX_128, CS_TXT_IDX_CCM, CS_TXT_IDX_>>,  \* 0xC09E
    <<49310, CS_TXT_IDX_DHE, CS_TXT_IDX_RSA, CS_TXT_IDX_AES128, CS_TXT_IDX_CCM, CS_TXT_IDX_, CS_TXT_IDX_, CS_TXT_IDX_, CS_TXT_IDX_>>,  \* 0xC09E
    <<49311, CS_TXT_IDX_TLS, CS_TXT_IDX_DHE, CS_TXT_IDX_RSA, CS_TXT_IDX_WITH, CS_TXT_IDX_AES, CS_TXT_IDX_256, CS_TXT_IDX_CCM, CS_TXT_IDX_>>,  \* 0xC09F
    <<49311, CS_TXT_IDX_DHE, CS_TXT_IDX_RSA, CS_TXT_IDX_AES256, CS_TXT_IDX_CCM, CS_TXT_IDX_, CS_TXT_IDX_, CS_TXT_IDX_, CS_TXT_IDX_>>,  \* 0xC09F
    <<49314, CS_TXT_IDX_TLS, CS_TXT_IDX_DHE, CS_TXT_IDX_RSA, CS_TXT_IDX_WITH, CS_TXT_IDX_AES, CS_TXT_IDX_128, CS_TXT_IDX_CCM, CS_TXT_IDX_8>>,  \* 0xC0A2
    <<49314, CS_TXT_IDX_DHE, CS_TXT_IDX_RSA, CS_TXT_IDX_AES128, CS_TXT_IDX_CCM8, CS_TXT_IDX_, CS_TXT_IDX_, CS_TXT_IDX_, CS_TXT_IDX_>>,  \* 0xC0A2
    <<49315, CS_TXT_IDX_TLS, CS_TXT_IDX_DHE, CS_TXT_IDX_RSA, CS_TXT_IDX_WITH, CS_TXT_IDX_AES, CS_TXT_IDX_256, CS_TXT_IDX_CCM, CS_TXT_IDX_8>>,  \* 0xC0A3
    <<49315, CS_TXT_IDX_DHE, CS_TXT_IDX_RSA, CS_TXT_IDX_AES256, CS_TXT_IDX_CCM8, CS_TXT_IDX_, CS_TXT_IDX_, CS_TXT_IDX_, CS_TXT_IDX_>>,  \* 0xC0A3
    <<49316, CS_TXT_IDX_TLS, CS_TXT_IDX_PSK, CS_TXT_IDX_WITH, CS_TXT_IDX_AES, CS_TXT_IDX_128, CS_TXT_IDX_CCM, CS_TXT_IDX_, CS_TXT_IDX_>>,  \* 0xC0A4
    <<49316, CS_TXT_IDX_PSK, CS_TXT_IDX_AES128, CS_TXT_IDX_CCM, CS_TXT_IDX_, CS_TXT_IDX_, CS_TXT_IDX_, CS_TXT_IDX_, CS_TXT_IDX_>>,  \* 0xC0A4
    <<49317, CS_TXT_IDX_TLS, CS_TXT_IDX_PSK, CS_TXT_IDX_WITH, CS_TXT_IDX_AES, CS_TXT_IDX_256, CS_TXT_IDX_CCM, CS_TXT_IDX_, CS_TXT_IDX_>>,  \* 0xC0A5
    <<49317, CS_TXT_IDX_PSK, CS_TXT_IDX_AES256, CS_TXT_IDX_CCM, CS_TXT_IDX_, CS_TXT_IDX_, CS_TXT_IDX_, CS_TXT_IDX_, CS_TXT_IDX_>>,  \* 0xC0A5
    <<49318, CS_TXT_IDX_TLS, CS_TXT_IDX_DHE, CS_TXT_IDX_PSK, CS_TXT_IDX_WITH, CS_TXT_IDX_AES, CS_TXT_IDX_128, CS_TXT_IDX_CCM, CS_TXT_IDX_>>,  \* 0xC0A6
    <<49318, CS_TXT_IDX_DHE, CS_TXT_IDX_PSK, CS_TXT_IDX_AES128, CS_TXT_IDX_CCM, CS_TXT_IDX_, CS_TXT_IDX_, CS_TXT_IDX_, CS_TXT_IDX_>>,  \* 0xC0A6
    <<49319, CS_TXT_IDX_TLS, CS_TXT_IDX_DHE, CS_TXT_IDX_PSK, CS_TXT_IDX_WITH, CS_TXT_IDX_AES, CS_TXT_IDX_256, CS_TXT_IDX_CCM, CS_TXT_IDX_>>,  \* 0xC0A7
    <<49319, CS_TXT_IDX_DHE, CS_TXT_IDX_PSK, CS_TXT_IDX_AES256, CS_TXT_IDX_CCM, CS_TXT_IDX_, CS_TXT_IDX_, CS_TXT_IDX_, CS_TXT_IDX_>>,  \* 0xC0A7
    <<49320, CS_TXT_IDX_TLS, CS_TXT_IDX_PSK, CS_TXT_IDX_WITH, CS_TXT_IDX_AES, CS_TXT_IDX_128, CS_TXT_IDX_CCM, CS_TXT_IDX_8, CS_TXT_IDX_>>,  \* 0xC0A8
    <<49320, CS_TXT_IDX_PSK, CS_TXT_IDX_AES128, CS_TXT_IDX_CCM8, CS_TXT_IDX_, CS_TXT_IDX_, CS_TXT_IDX_, CS_TXT_IDX_, CS_TXT_IDX_>>,  \* 0xC0A8
    <<49321, CS_TXT_IDX_TLS, CS_TXT_IDX_PSK, CS_TXT_IDX_WITH, CS_TXT_IDX_AES, CS_TXT_IDX_256, CS_TXT_IDX_CCM, CS_TXT_IDX_8, CS_TXT_IDX_>>,  \* 0xC0A9
    <<49321, CS_TXT_IDX_PSK, CS_TXT_IDX_AES256, CS_TXT_IDX_CCM8, CS_TXT_IDX_, CS_TXT_IDX_, CS_TXT_IDX_, CS_TXT_IDX_, CS_TXT_IDX_>>,  \* 0xC0A9
    <<49322, CS_TXT_IDX_TLS, CS_TXT_IDX_PSK, CS_TXT_IDX_DHE, CS_TXT_IDX_WITH, CS_TXT_IDX_AES, CS_TXT_IDX_128, CS_TXT_IDX_CCM, CS_TXT_IDX_8>>,  \* 0xC0AA
    <<49322, CS_TXT_IDX_DHE, CS_TXT_IDX_PSK, CS_TXT_IDX_AES128, CS_TXT_IDX_CCM8, CS_TXT_IDX_, CS_TXT_IDX_, CS_TXT_IDX_, CS_TXT_IDX_>>,  \* 0xC0AA
    <<49323, CS_TXT_IDX_TLS, CS_TXT_IDX_PSK, CS_TXT_IDX_DHE, CS_TXT_IDX_WITH, CS_TXT_IDX_AES, CS_TXT_IDX_256, CS_TXT_IDX_CCM, CS_TXT_IDX_8>>,  \* 0xC0AB
    <<49323, CS_TXT_IDX_DHE, CS_TXT_IDX_PSK, CS_TXT_IDX_AES256, CS_TXT_IDX_CCM8, CS_TXT_IDX_, CS_TXT_IDX_, CS_TXT_IDX_, CS_TXT_IDX_>>,  \* 0xC0AB
    <<52394, CS_TXT_IDX_TLS, CS_TXT_IDX_DHE, CS_TXT_IDX_RSA, CS_TXT_IDX_WITH, CS_TXT_IDX_CHACHA20, CS_TXT_IDX_POLY1305, CS_TXT_IDX_SHA256, CS_TXT_IDX_>>,  \* 0xCCAA
    <<52394, CS_TXT_IDX_DHE, CS_TXT_IDX_RSA, CS_TXT_IDX_CHACHA20, CS_TXT_IDX_POLY1305, CS_TXT_IDX_, CS_TXT_IDX_, CS_TXT_IDX_, CS_TXT_IDX_>>,  \* 0xCCAA
    <<52396, CS_TXT_IDX_TLS, CS_TXT_IDX_ECDHE, CS_TXT_IDX_PSK, CS_TXT_IDX_WITH, CS_TXT_IDX_CHACHA20, CS_TXT_IDX_POLY1305, CS_TXT_IDX_SHA256, CS_TXT_IDX_>>,  \* 0xCCAC
    <<52396, CS_TXT_IDX_ECDHE, CS_TXT_IDX_PSK, CS_TXT_IDX_CHACHA20, CS_TXT_IDX_POLY1305, CS_TXT_IDX_, CS_TXT_IDX_, CS_TXT_IDX_, CS_TXT_IDX_>>,  \* 0xCCAC
    <<52397, CS_TXT_IDX_TLS, CS_TXT_IDX_DHE, CS_TXT_IDX_PSK, CS_TXT_IDX_WITH, CS_TXT_IDX_CHACHA20, CS_TXT_IDX_POLY1305, CS_TXT_IDX_SHA256, CS_TXT_IDX_>>,  \* 0xCCAD
    <<52397, CS_TXT_IDX_DHE, CS_TXT_IDX_PSK, CS_TXT_IDX_CHACHA20, CS_TXT_IDX_POLY1305, CS_TXT_IDX_, CS_TXT_IDX_, CS_TXT_IDX_, CS_TXT_IDX_>>,  \* 0xCCAD
    <<52398, CS_TXT_IDX_TLS, CS_TXT_IDX_RSA, CS_TXT_IDX_PSK, CS_TXT_IDX_WITH, CS_TXT_IDX_CHACHA20, CS_TXT_IDX_POLY1305, CS_TXT_IDX_SHA256, CS_TXT_IDX_>>,  \* 0xCCAE
    <<52398, CS_TXT_IDX_RSA, CS_TXT_IDX_PSK, CS_TXT_IDX_CHACHA20, CS_TXT_IDX_POLY1305, CS_TXT_IDX_, CS_TXT_IDX_, CS_TXT_IDX_, CS_TXT_IDX_>>   \* 0xCCAE
  >>
\* the table as a function of the 1-based line number
cs_list_fn ==
  [i \in DOMAIN CS_ENTRIES |->
     CS_ENTRY(CS_ENTRIES[i][1], CS_ENTRIES[i][2], CS_ENTRIES[i][3],
              CS_ENTRIES[i][4], CS_ENTRIES[i][5], CS_ENTRIES[i][6],
              CS_ENTRIES[i][7], CS_ENTRIES[i][8], CS_ENTRIES[i][9])]

\* variant of cs_list: line 2 written with an empty part before its last part
cs_list_hole ==
  SubSeq([cs_list_fn EXCEPT ![2] =
            CS_ENTRY(CS_ENTRIES[2][1], CS_ENTRIES[2][2], CS_TXT_IDX_, CS_ENTRIES[2][3],
                     CS_TXT_IDX_, CS_TXT_IDX_, CS_TXT_IDX_, CS_TXT_IDX_, CS_TXT_IDX_)],
         1, Len(CS_ENTRIES))

\* variant of cs_list: line 3 written with the parts of line 1 and its own id
cs_list_dup ==
  SubSeq([cs_list_fn EXCEPT ![3] =
            CS_ENTRY(CS_ENTRIES[3][1], CS_ENTRIES[1][2], CS_ENTRIES[1][3],
                     CS_ENTRIES[1][4], CS_ENTRIES[1][5], CS_ENTRIES[1][6],
                     CS_ENTRIES[1][7], CS_ENTRIES[1][8], CS_ENTRIES[1][9])],
         1, Len(CS_ENTRIES))

\* static const struct cs_entry cs_list []
cs_list == SubSeq(cs_list_fn, 1, Len(CS_ENTRIES))

CS_LIST_LEN == Len(cs_list)

-----------------------------------------------------------------------------
\* Characters used by the code.

NUL == 0
CH_TAB == 9
CH_SPACE == 32
CH_COMMA == 44
CH_MINUS == 45
CH_COLON == 58
CH_SEMICOLON == 59
CH_UNDERSCORE == 95

\* the literal "TLS" of cs_str_to_zip, with its terminating 0
STR_TLS == <<84, 76, 83, 0>>

\* the literal "TLS_UNKNOWN_0x" of the fallback format
STR_TLS_UNKNOWN_0x == <<84, 76, 83, 95, 85, 78, 75, 78, 79, 87, 78, 95, 48, 120>>

\* Curl_raw_toupper: ASCII 'a'..'z' to 'A'..'Z', everything else unchanged
Curl_raw_toupper(c) == IF c >= 97 /\ c <= 122 THEN c - 32 ELSE c

\* strncasecompare(first, second, max) on the strings at s1[p1] and s2[p2]
RECURSIVE strncasecompare(_, _, _, _, _)
strncasecompare(s1, p1, s2, p2, max) ==
  IF max = 0 THEN TRUE
  ELSE IF s1[p1] = NUL \/ s2[p2] = NUL
       THEN Curl_raw_toupper(s1[p1]) = Curl_raw_toupper(s2[p2])
  ELSE IF Curl_raw_toupper(s1[p1]) # Curl_raw_toupper(s2[p2]) THEN FALSE
  ELSE strncasecompare(s1, p1 + 1, s2, p2 + 1, max - 1)

\* strlen(entry) of the cs_txt part with index idx
cs_txt_strlen(idx) == Len(cs_txt[idx + 1])

\* the cs_txt part with index idx as a C string
cs_txt_entry(idx) == cs_txt[idx + 1] \o <<NUL>>

-----------------------------------------------------------------------------
\* static int cs_str_to_zip(const char *cs_str, size_t cs_len, uint8_t zip[6])
\* The string lives in the C string s; cs_str is a position in it.

\* variant of cs_str_separator: the separator stays '-'
cs_str_separator_minus(s, cs_str) == CH_MINUS

\* char separator = '-'; if(strncasecompare(cs_str, "TLS", 3)) separator = '_';
cs_str_separator(s, cs_str) ==
  IF strncasecompare(s, cs_str, STR_TLS, 1, 3) THEN CH_UNDERSCORE ELSE CH_MINUS

\* for(; nxt < end && *nxt != '\0' && *nxt != separator; nxt++);
RECURSIVE cs_part_end(_, _, _, _)
cs_part_end(s, nxt, end, separator) ==
  IF nxt < end /\ s[nxt] # NUL /\ s[nxt] # separator
  THEN cs_part_end(s, nxt + 1, end, separator)
  ELSE nxt

\* lookup index for the part (skip empty string at 0); CS_TXT_LEN when the
\* loop runs to its end without a break
RECURSIVE cs_txt_index(_, _, _, _)
cs_txt_index(s, cur, len, idx) ==
  IF idx < CS_TXT_LEN
  THEN IF cs_txt_strlen(idx) = len /\ strncasecompare(cs_txt_entry(idx), 1, s, cur, len)
       THEN idx
       ELSE cs_txt_index(s, cur, len, idx + 1)
  ELSE idx

\* variant of cs_txt_lookup: memcmp instead of strncasecompare
cs_txt_lookup_exact(s, cur, len) ==
  LET same == {idx \in 1..(CS_TXT_LEN - 1) :
                 /\ cs_txt_strlen(idx) = len
                 /\ \A k \in 1..len : cs_txt[idx + 1][k] = s[cur + k - 1]}
  IN  IF same = {} THEN CS_TXT_LEN ELSE CHOOSE idx \in same : \A k \in same : idx <= k

\* variant of cs_txt_lookup: the loop starts at the empty string, idx = 0
cs_txt_lookup_from0(s, cur, len) == cs_txt_index(s, cur, len, 0)

\* for(idx = 1, entry = cs_txt + 1; idx < CS_TXT_LEN; idx++)
cs_txt_lookup(s, cur, len) == cs_txt_index(s, cur, len, 1)

\* variant of CS_MAX_PARTS: if(i == 9)
CS_MAX_PARTS_9 == 8 + 1

\* if(i == 8) return -1;
CS_MAX_PARTS == 8

\* variant of cs_zip_indexes: without the (uint8_t) casts
cs_zip_indexes_nocast(indexes) ==
  << BitOr(Shl(indexes[1], 2), Shr(BitAnd(indexes[2], 63), 4)),
     BitOr(Shl(indexes[2], 4), Shr(BitAnd(indexes[3], 63), 2)),
     BitOr(Shl(indexes[3], 6), BitAnd(indexes[4], 63)),
     BitOr(Shl(indexes[5], 2), Shr(BitAnd(indexes[6], 63), 4)),
     BitOr(Shl(indexes[6], 4), Shr(BitAnd(indexes[7], 63), 2)),
     BitOr(Shl(indexes[7], 6), BitAnd(indexes[8], 63)) >>

\* zip the 8 indexes into 48 bits
cs_zip_indexes(indexes) ==
  << U8(BitOr(Shl(indexes[1], 2), Shr(BitAnd(indexes[2], 63), 4))),
     U8(BitOr(Shl(indexes[2], 4), Shr(BitAnd(indexes[3], 63), 2))),
     U8(BitOr(Shl(indexes[3], 6), BitAnd(indexes[4], 63))),
     U8(BitOr(Shl(indexes[5], 2), Shr(BitAnd(indexes[6], 63), 4))),
     U8(BitOr(Shl(indexes[6], 4), Shr(BitAnd(indexes[7], 63), 2))),
     U8(BitOr(Shl(indexes[7], 6), BitAnd(indexes[8], 63))) >>

\* uint8_t indexes[8] = {0}: the parts found so far followed by zeros
cs_indexes(seen) == AsSeq([k \in 1..8 |-> IF k <= Len(seen) THEN seen[k] ELSE 0])

\* the do { } while(nxt < end && *(nxt++) != '\0') loop and the zip after it;
\* seen holds indexes[0..i-1].  On failure zip[] is left unwritten.
RECURSIVE cs_str_to_zip_loop(_, _, _, _, _)
cs_str_to_zip_loop(s, nxt, end, separator, seen) ==
  IF Len(seen) = CS_MAX_PARTS THEN [rc |-> -1, zip |-> <<>>]
  ELSE LET cur == nxt
           stop == cs_part_end(s, nxt, end, separator)
           len == stop - cur
           idx == cs_txt_lookup(s, cur, len)
       IN  IF idx = CS_TXT_LEN THEN [rc |-> -1, zip |-> <<>>]
           ELSE IF stop < end /\ s[stop] # NUL
                THEN cs_str_to_zip_loop(s, stop + 1, end, separator,
                                        Append(seen, U8(idx)))
                ELSE [rc |-> 0,
                      zip |-> cs_zip_indexes(cs_indexes(Append(seen, U8(idx))))]

cs_str_to_zip(s, cs_str, cs_len) ==
  cs_str_to_zip_loop(s, cs_str, cs_str + cs_len, cs_str_separator(s, cs_str), <<>>)

-----------------------------------------------------------------------------
\* msnprintf(&buf[len], max, ...) with the formatted text given: stores at
\* most max - 1 characters and a terminating 0, returns the number of
\* characters stored; with max = 0 nothing is stored.
msnprintf(buf, len, max, fmt) ==
  IF max = 0 THEN [r |-> 0, buf |-> buf]
  ELSE LET n == IF Len(fmt) < max THEN Len(fmt) ELSE max - 1
       IN  [r |-> n,
            buf |-> AsSeq([k \in DOMAIN buf |->
                             IF k > len /\ k <= len + n THEN fmt[k - len]
                             ELSE IF k = len + n + 1 THEN NUL
                             ELSE buf[k]])]

\* "%04x"
HexDigit(d) == IF d < 10 THEN 48 + d ELSE 97 + (d - 10)

fmt_04x(id) ==
  << HexDigit((id \div 4096) % 16), HexDigit((id \div 256) % 16),
     HexDigit((id \div 16) % 16), HexDigit(id % 16) >>

\* static int cs_zip_to_str(const uint8_t zip[6], char *buf, size_t buf_size)

\* unzip the 8 indexes
cs_unzip_indexes(zip) ==
  << U8(Shr(zip[1], 2)),
     U8(BitOr(BitAnd(Shl(zip[1], 4), 63), Shr(zip[2], 4))),
     U8(BitOr(BitAnd(Shl(zip[2], 2), 63), Shr(zip[3], 6))),
     U8(BitAnd(Shl(zip[3], 0), 63)),
     U8(Shr(zip[4], 2)),
     U8(BitOr(BitAnd(Shl(zip[4], 4), 63), Shr(zip[5], 4))),
     U8(BitOr(BitAnd(Shl(zip[5], 2), 63), Shr(zip[6], 6))),
     U8(BitAnd(Shl(zip[6], 0), 63)) >>

\* variant of cs_zip_separator: the separator stays '-'
cs_zip_separator_minus(indexes) == CH_MINUS

\* if(indexes[0] == CS_TXT_IDX_TLS) separator = '_';
cs_zip_separator(indexes) ==
  IF indexes[1] = CS_TXT_IDX_TLS THEN CH_UNDERSCORE ELSE CH_MINUS

\* for(i = 0; i < 8 && indexes[i] != 0 && len < buf_size; i++) { ... }
RECURSIVE cs_zip_to_str_loop(_, _, _, _, _, _)
cs_zip_to_str_loop(indexes, separator, buf, buf_size, i, len) ==
  IF i < 8 /\ indexes[i + 1] # 0 /\ len < buf_size
  THEN IF indexes[i + 1] >= CS_TXT_LEN THEN [r |-> -1, buf |-> buf]
       ELSE LET entry == cs_txt[indexes[i + 1] + 1]
                p == IF i > 0
                     THEN msnprintf(buf, len, buf_size - len, <<separator>> \o entry)
                     ELSE msnprintf(buf, len, buf_size - len, entry)
            IN  IF p.r < 0 THEN [r |-> -1, buf |-> p.buf]
                ELSE cs_zip_to_str_loop(indexes, separator, p.buf, buf_size,
                                        i + 1, len + p.r)
  ELSE [r |-> 0, buf |-> buf]

\* variant of cs_zip_to_str: return -1 when the name did not fit
cs_zip_to_str_fail_trunc(zip, buf, buf_size) ==
  LET indexes == cs_unzip_indexes(zip)
      z == cs_zip_to_str_loop(indexes, cs_zip_separator(indexes), buf, buf_size, 0, 0)
      n == Cardinality({i \in 1..8 : \A k \in 1..i : indexes[k] # 0})
      part(k) == IF k <= n THEN cs_txt_strlen(indexes[k]) ELSE 0
      full == part(1) + part(2) + part(3) + part(4) + part(5) + part(6)
                + part(7) + part(8) + n - 1
  IN  IF z.r = 0 /\ n > 0 /\ buf_size <= full
      THEN [r |-> -1, buf |-> z.buf]
      ELSE z

cs_zip_to_str(zip, buf, buf_size) ==
  LET indexes == cs_unzip_indexes(zip)
  IN  cs_zip_to_str_loop(indexes, cs_zip_separator(indexes), buf, buf_size, 0, 0)

-----------------------------------------------------------------------------
\* variant of Curl_cipher_suite_lookup_id: memcmp over the first 3 bytes
Curl_cipher_suite_lookup_id_memcmp3(s, cs_str, cs_len) ==
  LET z == IF cs_len > 0 THEN cs_str_to_zip(s, cs_str, cs_len)
           ELSE [rc |-> -1, zip |-> <<>>]
      hits == {i \in 1..CS_LIST_LEN :
                 SubSeq(cs_list[i].zip, 1, 3) = SubSeq(z.zip, 1, 3)}
  IN  IF cs_len > 0 /\ z.rc = 0 /\ hits # {}
      THEN cs_list[CHOOSE i \in hits : \A k \in hits : i <= k].id
      ELSE 0

\* uint16_t Curl_cipher_suite_lookup_id(const char *cs_str, size_t cs_len)
Curl_cipher_suite_lookup_id(s, cs_str, cs_len) ==
  LET z == IF cs_len > 0 THEN cs_str_to_zip(s, cs_str, cs_len)
           ELSE [rc |-> -1, zip |-> <<>>]
      hits == {i \in 1..CS_LIST_LEN : cs_list[i].zip = z.zip}
  IN  IF cs_len > 0 /\ z.rc = 0 /\ hits # {}
      THEN cs_list[CHOOSE i \in hits : \A k \in hits : i <= k].id
      ELSE 0

\* variant of cs_is_separator: no case ';'
cs_is_separator_nosemi(c) == c \in {CH_SPACE, CH_TAB, CH_COLON, CH_COMMA}

\* static bool cs_is_separator(char c)
cs_is_separator(c) ==
  c \in {CH_SPACE, CH_TAB, CH_COLON, CH_COMMA, CH_SEMICOLON}

\* for(; cs_is_separator(*str[0]); (*str)++);
RECURSIVE cs_skip_separators(_, _)
cs_skip_separators(s, str) ==
  IF cs_is_separator(s[str]) THEN cs_skip_separators(s, str + 1) ELSE str

\* for(*end = *str; *end[0] != '\0' && !cs_is_separator(*end[0]); (*end)++);
RECURSIVE cs_skip_name(_, _)
cs_skip_name(s, end) ==
  IF s[end] # NUL /\ ~cs_is_separator(s[end]) THEN cs_skip_name(s, end + 1) ELSE end

\* variant of Curl_cipher_suite_walk_str: *str is moved on to *end
Curl_cipher_suite_walk_str_advance(s, str) ==
  LET str1 == cs_skip_separators(s, str)
      end1 == cs_skip_name(s, str1)
  IN  [str |-> end1, end |-> end1,
       id |-> Curl_cipher_suite_lookup_id(s, str1, end1 - str1)]

\* uint16_t Curl_cipher_suite_walk_str(const char **str, const char **end):
\* the values of *str and *end at return, and the returned id
Curl_cipher_suite_walk_str(s, str) ==
  LET str1 == cs_skip_separators(s, str)
      end1 == cs_skip_name(s, str1)
  IN  [str |-> str1, end |-> end1,
       id |-> Curl_cipher_suite_lookup_id(s, str1, end1 - str1)]

\* variant of cs_find: the first entry with the id, whatever its style
cs_find_first(list, id, prefer_rfc) ==
  LET same == {i \in 0..(Len(list) - 1) : list[i + 1].id = id}
  IN  IF same # {} THEN CHOOSE i \in same : \A k \in same : i <= k
      ELSE Len(list)

\* the scan of Curl_cipher_suite_get_str over the table list, with 0-based
\* entry numbers and Len(list) for CS_LIST_LEN:
\*   for(i = 0; i < CS_LIST_LEN; i++) {
\*     if(cs_list[i].id != id) continue;
\*     if((cs_list[i].zip[0] >> 2 != CS_TXT_IDX_TLS) == !prefer_rfc) {
\*       j = i; break; }
\*     if(j == CS_LIST_LEN) j = i; }
\* The loop leaves in j the first entry that passes both tests, else the first
\* entry that passes the id test, else CS_LIST_LEN.
cs_find(list, id, prefer_rfc) ==
  LET same == {i \in 0..(Len(list) - 1) : list[i + 1].id = id}
      styled == {i \in same :
                   (Shr(list[i + 1].zip[1], 2) # CS_TXT_IDX_TLS) = (~prefer_rfc)}
      first(S) == CHOOSE i \in S : \A k \in S : i <= k
  IN  IF styled # {} THEN first(styled)
      ELSE IF same # {} THEN first(same)
      ELSE Len(list)

\* variant of Curl_cipher_suite_get_str: int r = 0
Curl_cipher_suite_get_str_r0(id, buf, buf_size, prefer_rfc) ==
  LET j == cs_find(cs_list, id, prefer_rfc)
      z == IF j < CS_LIST_LEN
           THEN cs_zip_to_str(cs_list[j + 1].zip, buf, buf_size)
           ELSE [r |-> 0, buf |-> buf]
  IN  IF z.r < 0
      THEN [r |-> z.r,
            buf |-> msnprintf(z.buf, 0, buf_size,
                              STR_TLS_UNKNOWN_0x \o fmt_04x(id)).buf]
      ELSE z

\* int Curl_cipher_suite_get_str(uint16_t id, char *buf, size_t buf_size,
\*                               bool prefer_rfc): the return value and buf
Curl_cipher_suite_get_str(id, buf, buf_size, prefer_rfc) ==
  LET j == cs_find(cs_list, id, prefer_rfc)
      z == IF j < CS_LIST_LEN
           THEN cs_zip_to_str(cs_list[j + 1].zip, buf, buf_size)
           ELSE [r |-> -1, buf |-> buf]
  IN  IF z.r < 0
      THEN [r |-> z.r,
            buf |-> msnprintf(z.buf, 0, buf_size,
                              STR_TLS_UNKNOWN_0x \o fmt_04x(id)).buf]
      ELSE z

-----------------------------------------------------------------------------
\* the first entry of cs_list whose zip is the one given, as its id, or 0:
\*   for(i = 0; i < CS_LIST_LEN; i++)
\*     if(memcmp(cs_list[i].zip, zip, sizeof(zip)) == 0) return cs_list[i].id;
\*   return 0;
cs_list_scan(zip) ==
  LET hits == {i \in 1..CS_LIST_LEN : cs_list[i].zip = zip}
  IN  IF hits # {} THEN cs_list[CHOOSE i \in hits : \A k \in hits : i <= k].id
      ELSE 0

\* variant of cs_frame: the locals are static, one copy for all threads
cs_frame_static(t) == 1

\* where the automatic variables of a call made by thread t live (zip[] of
\* Curl_cipher_suite_lookup_id; j and r of Curl_cipher_suite_get_str): in the
\* stack frame of the call, one per thread
cs_frame(t) == t

-----------------------------------------------------------------------------
\* Bounds of the checked inputs.

\* most parts of a generated name (the code accepts 8)
MaxParts == 10

\* case variants 0..3 change the whole name, variant 3 + k changes the
\* letter at position k only
MaxCaseMode == 7

\* most atoms (one separator character or one name) of a walked list
MaxListLen == 3

\* largest buf_size passed to Curl_cipher_suite_get_str
MaxBufSize == 46

\* threads that call the functions at the same time
NThreads == 2

\* how many of the values of PackSamples are used for each of the 8 indexes
MaxPackValues == 3

-----------------------------------------------------------------------------
\* Names handed to the functions.

RECURSIVE Join(_, _)
Join(words, sep) ==
  IF words = <<>> THEN <<>>
  ELSE IF Len(words) = 1 THEN words[1]
  ELSE words[1] \o <<sep>> \o Join(Tail(words), sep)

\* a part index as text; CS_TXT_LEN stands for a word that is no part ("X")
Word(t) == IF t = CS_TXT_LEN THEN <<88>> ELSE cs_txt[t + 1]

SepOf(idxs) ==
  IF idxs # <<>> /\ idxs[1] = CS_TXT_IDX_TLS THEN CH_UNDERSCORE ELSE CH_MINUS

OtherSep(sep) == IF sep = CH_UNDERSCORE THEN CH_MINUS ELSE CH_UNDERSCORE

NameOf(idxs, sep) == Join([k \in DOMAIN idxs |-> Word(idxs[k])], sep)

\* the part indexes of table line i as written: the arguments before the
\* first empty one
EntryIndexes(i) ==
  LET args == SubSeq(CS_ENTRIES[i], 2, 9)
      zeros == {k \in 1..8 : args[k] = CS_TXT_IDX_}
      n == IF zeros = {} THEN 8
           ELSE (CHOOSE k \in zeros : \A m \in zeros : k <= m) - 1
  IN  SubSeq(args, 1, n)

\* the name of table line i as written
EntryName(i) == NameOf(EntryIndexes(i), SepOf(EntryIndexes(i)))

EntryIsRfc(i) == CS_ENTRIES[i][2] = CS_TXT_IDX_TLS

TableIds == {CS_ENTRIES[i][1] : i \in DOMAIN CS_ENTRIES}

Repeat(t, n) == [k \in 1..n |-> t]

\* part sequences derived from table line i: the line itself, a strict
\* prefix, extensions, an unknown part, empty parts, padding to n parts
Variants(i) ==
  LET p == EntryIndexes(i)
      n == Len(p)
  IN  {p, SubSeq(p, 1, n - 1), Append(p, CS_TXT_IDX_SHA), Append(p, CS_TXT_LEN),
       <<CS_TXT_IDX_>> \o p, Append(p, CS_TXT_IDX_),
       <<p[1], CS_TXT_IDX_>> \o Tail(p)}
      \cup {p \o Repeat(CS_TXT_IDX_SHA, k - n) : k \in (n + 1)..MaxParts}

\* names built from the table lines, with the separator of their style and
\* with the other one
TableVariantNames ==
  UNION {{NameOf(v, SepOf(EntryIndexes(i))) : v \in Variants(i)}
          \cup {NameOf(EntryIndexes(i), OtherSep(SepOf(EntryIndexes(i))))} :
         i \in DOMAIN CS_ENTRIES}

\* names of n equal parts, for every part and both separators
RepeatNames ==
  {NameOf(Repeat(t, n), sep) :
     t \in 1..CS_TXT_LEN, n \in 1..MaxParts, sep \in {CH_MINUS, CH_UNDERSCORE}}

LookupNames == TableVariantNames \cup RepeatNames

\* the names looked up in every case variant: the table names as written and
\* with the other separator
CaseNames ==
  UNION {{NameOf(EntryIndexes(i), SepOf(EntryIndexes(i))),
          NameOf(EntryIndexes(i), OtherSep(SepOf(EntryIndexes(i))))} :
         i \in DOMAIN CS_ENTRIES}

ToLower(c) == IF c >= 65 /\ c <= 90 THEN c + 32 ELSE c

ToUpper(c) == IF c >= 97 /\ c <= 122 THEN c - 32 ELSE c

Upper(txt) == AsSeq([k \in DOMAIN txt |-> ToUpper(txt[k])])

Lower(txt) == AsSeq([k \in DOMAIN txt |-> ToLower(txt[k])])

\* name txt with some letters changed to lower case
CaseVariant(txt, m) ==
  AsSeq([k \in DOMAIN txt |->
           IF \/ m = 1
              \/ m = 2 /\ k % 2 = 1
              \/ m = 3 /\ k % 2 = 0
              \/ m > 3 /\ k = m - 3
           THEN ToLower(txt[k]) ELSE txt[k]])

\* lists to walk: up to MaxListLen atoms, each one separator character or
\* one name
ListAtoms ==
  {<<CH_SPACE>>, <<CH_TAB>>, <<CH_COLON>>, <<CH_COMMA>>, <<CH_SEMICOLON>>,
   NameOf(<<CS_TXT_IDX_AES128, CS_TXT_IDX_SHA>>, CH_MINUS),
   NameOf(<<CS_TXT_IDX_ECDHE, CS_TXT_IDX_RSA, CS_TXT_IDX_AES256, CS_TXT_IDX_SHA>>,
          CH_MINUS),
   <<88>>}

\* a sequence in the opposite order
Reverse(q) == AsSeq([k \in 1..Len(q) |-> q[Len(q) + 1 - k]])

RECURSIVE Concat(_)
Concat(seqs) == IF seqs = <<>> THEN <<>> ELSE seqs[1] \o Concat(Tail(seqs))

Lists ==
  UNION {{Concat(a) : a \in [1..n -> ListAtoms]} : n \in 0..MaxListLen}

\* ids asked of Curl_cipher_suite_get_str: the ids of the table, their
\* neighbours, and some ids far from the table
ProbeIds ==
  (TableIds \cup {i + 1 : i \in TableIds} \cup {i - 1 : i \in TableIds}
   \cup {0, 255, 4660, 43981, 48879, 65535}) \cap (0..65535)

\* the caller's buffer before the call: buf_size bytes of 'a'
FreshBuf(size) == AsSeq([k \in 1..size |-> 97])

\* the C string held in a buffer: the bytes before the first 0
CStr(b) ==
  LET nuls == {k \in DOMAIN b : b[k] = NUL}
  IN  IF nuls = {} THEN b
      ELSE SubSeq(b, 1, (CHOOSE k \in nuls : \A m \in nuls : k <= m) - 1)

HasNul(b) == \E k \in DOMAIN b : b[k] = NUL

-----------------------------------------------------------------------------
\* State: a caller that makes one call of Curl_cipher_suite_lookup_id, or one
\* call of Curl_cipher_suite_get_str, or walks a list with
\* Curl_cipher_suite_walk_str.

VARIABLES
  pc,       \* what the caller does next: "lookup", "get" or "walk" at the
            \* start, then "looked", "got", "call", "returned", "done"
  text,     \* the C string given to lookup_id, or the list being walked
  textlen,  \* the cs_len argument of lookup_id
  lookup,   \* the id returned by lookup_id
  ptr,      \* the caller's cursor into text, passed as str to walk_str
  endp,     \* the caller's end, passed as end to walk_str
  walked,   \* the ids returned by the walk_str calls so far
  suite,    \* the id argument of get_str
  rfc,      \* the prefer_rfc argument of get_str
  bufsize,  \* the buf_size argument of get_str
  outbuf,   \* the buf argument of get_str
  ret       \* the value returned by get_str

\* Threads that call the functions at the same time, one call each.
VARIABLES
  tpc,      \* the place of each thread in its call: "idle", "zip", "scan",
            \* "skip", "end", "find", "unzip", "fallback", "done"
  targ,     \* the arguments of each thread's call
  auto,     \* the automatic variables zip, j and r, by frame
  tout      \* what each thread's call wrote to its caller: the cursor, the
            \* end, the buffer and the returned value

\* The packing of 8 indexes into 6 bytes and back.
VARIABLES
  pidx,     \* indexes[8] handed to the zip lines of cs_str_to_zip
  pzip,     \* the zip[6] they wrote
  pun       \* indexes[8] as the unzip lines of cs_zip_to_str recover them

\* A pass over the lines of cs_list.
VARIABLES
  row,      \* the number of lines visited, the last one being cs_list[row - 1]
  rowidx,   \* the 8 indexes unzipped from that line
  rowout    \* what cs_zip_to_str returns (r) and writes (buf) for that line, and
            \* the id the scan of Curl_cipher_suite_lookup_id finds for its zip

vars == <<pc, text, textlen, lookup, ptr, endp, walked, suite, rfc, bufsize, outbuf, ret,
          tpc, targ, auto, tout, pidx, pzip, pun, row, rowidx, rowout>>

threadVars == <<tpc, targ, auto, tout>>
packVars == <<pidx, pzip, pun>>
tableVars == <<row, rowidx, rowout>>

\* the variables of the threads, of the packing and of the table pass before
\* any of them has run
ThreadsIdle == tpc = <<>> /\ targ = <<>> /\ auto = <<>> /\ tout = <<>>
PackIdle == pidx = <<>> /\ pzip = <<>> /\ pun = <<>>
TableIdle == row = 0 /\ rowidx = <<>> /\ rowout = [r |-> 0, buf |-> <<>>, id |-> 0]

lookupVars == <<textlen, lookup>>
walkVars == <<ptr, endp, walked>>
getVars == <<suite, rfc, bufsize, outbuf, ret>>

Init ==
  /\ pc \in {"lookup", "get", "walk"}
  /\ text = <<NUL>>
  /\ textlen = 0
  /\ lookup = 0
  /\ ptr = 1
  /\ endp = 1
  /\ walked = <<>>
  /\ suite = 0
  /\ rfc = FALSE
  /\ bufsize = 0
  /\ outbuf = <<>>
  /\ ret = 0
  /\ ThreadsIdle
  /\ PackIdle
  /\ TableIdle

\* a caller calls Curl_cipher_suite_lookup_id(cs_str, cs_len); cs_len is the
\* length of the string, or one less, or 0
LookupId ==
  /\ pc = "lookup"
  /\ \E name \in LookupNames, m \in 0..MaxCaseMode :
       \E n \in {Len(name), Len(name) - 1, 0} :
         /\ n >= 0
         /\ m = 0 \/ (n = Len(name) /\ name \in CaseNames)
         /\ n > 0 \/ name \in RepeatNames
         /\ text' = CaseVariant(name, m) \o <<NUL>>
         /\ textlen' = n
         /\ lookup' = Curl_cipher_suite_lookup_id(text', 1, n)
  /\ pc' = "looked"
  /\ UNCHANGED <<walkVars, getVars, threadVars, packVars, tableVars>>

\* a caller calls Curl_cipher_suite_get_str(id, buf, buf_size, prefer_rfc)
GetStr ==
  /\ pc = "get"
  /\ \E i \in ProbeIds, size \in 0..MaxBufSize, p \in BOOLEAN :
       /\ i \in TableIds \/ size \in {0, 1, 18, 19, MaxBufSize}
       /\ \E res \in {Curl_cipher_suite_get_str(i, FreshBuf(size), size, p)} :
           /\ suite' = i
           /\ bufsize' = size
           /\ rfc' = p
           /\ outbuf' = res.buf
           /\ ret' = res.r
  /\ pc' = "got"
  /\ UNCHANGED <<text, lookupVars, walkVars, threadVars, packVars, tableVars>>

\* a caller starts to walk a list: for(ptr = list; ptr[0] != '\0'; ptr = end)
Begin ==
  /\ pc = "walk"
  /\ \E list \in Lists :
       /\ text' = list \o <<NUL>>
       /\ pc' = IF list = <<>> THEN "done" ELSE "call"
  /\ ptr' = 1
  /\ UNCHANGED <<endp, walked, lookupVars, getVars, threadVars, packVars, tableVars>>

\* id = Curl_cipher_suite_walk_str(&ptr, &end)
WalkStr ==
  /\ pc = "call"
  /\ \E res \in {Curl_cipher_suite_walk_str(text, ptr)} :
         /\ ptr' = res.str
         /\ endp' = res.end
         /\ walked' = Append(walked, res.id)
  /\ pc' = "returned"
  /\ UNCHANGED <<text, lookupVars, getVars, threadVars, packVars, tableVars>>

\* the caller's ptr = end and its test ptr[0] != '\0'
Continue ==
  /\ pc = "returned"
  /\ ptr' = endp
  /\ pc' = IF text[endp] = NUL THEN "done" ELSE "call"
  /\ UNCHANGED <<text, endp, walked, lookupVars, getVars, threadVars, packVars, tableVars>>

Next == LookupId \/ GetStr \/ Begin \/ WalkStr \/ Continue

Spec == Init /\ [][Next]_vars

\* the caller's loop keeps running: a call of walk_str returns and the loop
\* goes on.  The first conjunct is WF_vars(WalkStr) with ENABLED <<WalkStr>>_vars
\* written out as pc = "call".
FairSpec ==
  /\ Spec
  /\ ([]<>(pc # "call") \/ []<><<WalkStr>>_vars)
  /\ WF_vars(Continue)


-----------------------------------------------------------------------------
\* Several threads, each making one call with arguments, a cursor and a
\* buffer of its own.  A call runs in steps, one for each loop or callee of
\* the function, and the steps of different threads interleave.  cs_txt and
\* cs_list are static const: definitions of this module that no step assigns.

Threads == 1..NThreads

callerVars == <<pc, text, textlen, lookup, ptr, endp, walked, suite, rfc, bufsize, outbuf, ret>>

\* the single caller's variables before any call
CallerIdle ==
  /\ text = <<NUL>> /\ textlen = 0 /\ lookup = 0 /\ ptr = 1 /\ endp = 1
  /\ walked = <<>> /\ suite = 0 /\ rfc = FALSE /\ bufsize = 0 /\ outbuf = <<>>
  /\ ret = 0

\* the calls a thread may make
ThreadCalls ==
  {[op |-> "lookup", s |-> nm \o <<NUL>>, len |-> Len(nm), id |-> 0, size |-> 0,
    prefer |-> FALSE] :
     nm \in {NameOf(<<CS_TXT_IDX_AES128, CS_TXT_IDX_SHA>>, CH_MINUS),
             NameOf(<<CS_TXT_IDX_TLS, CS_TXT_IDX_AES, CS_TXT_IDX_128, CS_TXT_IDX_GCM,
                      CS_TXT_IDX_SHA256>>, CH_UNDERSCORE),
             <<88>>}}
  \cup
  {[op |-> "walk", s |-> li \o <<NUL>>, len |-> 0, id |-> 0, size |-> 0,
    prefer |-> FALSE] :
     li \in {<<CH_SPACE>> \o NameOf(<<CS_TXT_IDX_AES128, CS_TXT_IDX_SHA>>, CH_MINUS)
               \o <<CH_COLON, 88>>,
             NameOf(<<CS_TXT_IDX_ECDHE, CS_TXT_IDX_RSA, CS_TXT_IDX_AES256,
                      CS_TXT_IDX_SHA>>, CH_MINUS) \o <<CH_COMMA>>}}
  \cup
  {[op |-> "get", s |-> <<NUL>>, len |-> 0, id |-> c[1], size |-> c[2],
    prefer |-> c[3]] :
     c \in {<<47, 11, FALSE>>, <<47, 5, TRUE>>, <<4865, 30, FALSE>>,
            <<65535, 19, TRUE>>}}

\* what a call hands back to its caller, before the call
FreshOut(c) == [str |-> 1, end |-> 1, buf |-> FreshBuf(c.size), ret |-> 0]

ConcInit ==
  /\ pc = "threads"
  /\ text = <<NUL>>
  /\ textlen = 0
  /\ lookup = 0
  /\ ptr = 1
  /\ endp = 1
  /\ walked = <<>>
  /\ suite = 0
  /\ rfc = FALSE
  /\ bufsize = 0
  /\ outbuf = <<>>
  /\ ret = 0
  /\ tpc = [t \in Threads |-> "idle"]
  /\ targ = [t \in Threads |-> [op |-> "none"]]
  /\ auto = [f \in Threads |-> [zip |-> <<>>, j |-> 0, r |-> 0]]
  /\ tout = [t \in Threads |-> [str |-> 1, end |-> 1, buf |-> <<>>, ret |-> 0]]
  /\ PackIdle
  /\ TableIdle

\* thread t enters Curl_cipher_suite_lookup_id, Curl_cipher_suite_walk_str or
\* Curl_cipher_suite_get_str
TCall(t) ==
  /\ tpc[t] = "idle"
  /\ \E c \in ThreadCalls :
       /\ targ' = [targ EXCEPT ![t] = c]
       /\ tout' = [tout EXCEPT ![t] = FreshOut(c)]
       /\ tpc' = [tpc EXCEPT ![t] = CASE c.op = "lookup" -> "zip"
                                      [] c.op = "walk" -> "skip"
                                      [] c.op = "get" -> "find"]
  /\ UNCHANGED <<auto, callerVars, packVars, tableVars>>

\* walk_str: for(; cs_is_separator(*str[0]); (*str)++);
TSkip(t) ==
  /\ tpc[t] = "skip"
  /\ tout' = [tout EXCEPT ![t].str = cs_skip_separators(targ[t].s, tout[t].str)]
  /\ tpc' = [tpc EXCEPT ![t] = "end"]
  /\ UNCHANGED <<targ, auto, callerVars, packVars, tableVars>>

\* walk_str: for(*end = *str; ...; (*end)++); then it calls lookup_id
TEnd(t) ==
  /\ tpc[t] = "end"
  /\ tout' = [tout EXCEPT ![t].end = cs_skip_name(targ[t].s, tout[t].str)]
  /\ tpc' = [tpc EXCEPT ![t] = "zip"]
  /\ UNCHANGED <<targ, auto, callerVars, packVars, tableVars>>

\* the cs_str and cs_len that lookup_id is called with
LookupStr(t) == IF targ[t].op = "walk" THEN tout[t].str ELSE 1
LookupLen(t) == IF targ[t].op = "walk" THEN tout[t].end - tout[t].str ELSE targ[t].len

\* lookup_id: if(cs_len > 0 && cs_str_to_zip(cs_str, cs_len, zip) == 0),
\* which writes the automatic zip[]; else return 0
TZip(t) ==
  /\ tpc[t] = "zip"
  /\ \E z \in {IF LookupLen(t) > 0
               THEN cs_str_to_zip(targ[t].s, LookupStr(t), LookupLen(t))
               ELSE [rc |-> -1, zip |-> <<>>]} :
       IF z.rc = 0
       THEN /\ auto' = [auto EXCEPT ![cs_frame(t)].zip = z.zip]
            /\ tpc' = [tpc EXCEPT ![t] = "scan"]
            /\ UNCHANGED tout
       ELSE /\ tout' = [tout EXCEPT ![t].ret = 0]
            /\ tpc' = [tpc EXCEPT ![t] = "done"]
            /\ UNCHANGED auto
  /\ UNCHANGED <<targ, callerVars, packVars, tableVars>>

\* lookup_id: the scan of cs_list with zip[], and the return
TScan(t) ==
  /\ tpc[t] = "scan"
  /\ tout' = [tout EXCEPT ![t].ret = cs_list_scan(auto[cs_frame(t)].zip)]
  /\ tpc' = [tpc EXCEPT ![t] = "done"]
  /\ UNCHANGED <<targ, auto, callerVars, packVars, tableVars>>

\* get_str: int r = -1; and the scan of cs_list that sets j
TFind(t) ==
  /\ tpc[t] = "find"
  /\ auto' = [auto EXCEPT ![cs_frame(t)].j = cs_find(cs_list, targ[t].id, targ[t].prefer),
                          ![cs_frame(t)].r = -1]
  /\ tpc' = [tpc EXCEPT ![t] = "unzip"]
  /\ UNCHANGED <<targ, tout, callerVars, packVars, tableVars>>

\* get_str: if(j < CS_LIST_LEN) r = cs_zip_to_str(cs_list[j].zip, buf, buf_size);
TUnzip(t) ==
  /\ tpc[t] = "unzip"
  /\ IF auto[cs_frame(t)].j < CS_LIST_LEN
     THEN \E z \in {cs_zip_to_str(cs_list[auto[cs_frame(t)].j + 1].zip,
                                 tout[t].buf, targ[t].size)} :
            /\ auto' = [auto EXCEPT ![cs_frame(t)].r = z.r]
            /\ tout' = [tout EXCEPT ![t].buf = z.buf]
     ELSE UNCHANGED <<auto, tout>>
  /\ tpc' = [tpc EXCEPT ![t] = "fallback"]
  /\ UNCHANGED <<targ, callerVars, packVars, tableVars>>

\* get_str: if(r < 0) msnprintf(buf, buf_size, "TLS_UNKNOWN_0x%04x", id);
\* return r;
TFallback(t) ==
  /\ tpc[t] = "fallback"
  /\ \E r \in {auto[cs_frame(t)].r} :
       tout' = [tout EXCEPT
                  ![t].ret = r,
                  ![t].buf = IF r < 0
                             THEN msnprintf(tout[t].buf, 0, targ[t].size,
                                            STR_TLS_UNKNOWN_0x \o fmt_04x(targ[t].id)).buf
                             ELSE tout[t].buf]
  /\ tpc' = [tpc EXCEPT ![t] = "done"]
  /\ UNCHANGED <<targ, auto, callerVars, packVars, tableVars>>

ConcNext ==
  \E t \in Threads :
    \/ TCall(t)
    \/ TSkip(t)
    \/ TEnd(t)
    \/ TZip(t)
    \/ TScan(t)
    \/ TFind(t)
    \/ TUnzip(t)
    \/ TFallback(t)

ConcSpec == ConcInit /\ [][ConcNext]_vars

-----------------------------------------------------------------------------
\* The zip lines of cs_str_to_zip and the unzip lines of cs_zip_to_str applied
\* to indexes[8] of any values 0..63.

\* values for an index: all bits, none, alternating bits, single bits
PackSamples == <<63, 0, 42, 21, 1, 32>>

PackValues ==
  {PackSamples[k] : k \in 1..(IF MaxPackValues < Len(PackSamples)
                               THEN MaxPackValues ELSE Len(PackSamples))}

\* the indexes packed: every index a value of PackValues, and every value
\* 0..63 at every place with the other places all 63 or all 0
PackTuples ==
  [1..8 -> PackValues]
  \cup {[k \in 1..8 |-> IF k = q THEN v ELSE fill] :
          q \in 1..8, v \in 0..63, fill \in {0, 63}}

PackInit ==
  /\ pc = "pack"
  /\ CallerIdle
  /\ ThreadsIdle
  /\ PackIdle
  /\ TableIdle

\* /* zip the 8 indexes into 48 bits */
Zip ==
  /\ pc = "pack"
  /\ \E indexes \in PackTuples :
       /\ pidx' = AsSeq(indexes)
       /\ pzip' = cs_zip_indexes(indexes)
  /\ pc' = "zipped"
  /\ UNCHANGED <<pun, text, textlen, lookup, ptr, endp, walked, suite, rfc, bufsize,
                 outbuf, ret, threadVars, tableVars>>

\* /* unzip the 8 indexes */
Unzip ==
  /\ pc = "zipped"
  /\ pun' = cs_unzip_indexes(pzip)
  /\ pc' = "unzipped"
  /\ UNCHANGED <<pidx, pzip, text, textlen, lookup, ptr, endp, walked, suite, rfc,
                 bufsize, outbuf, ret, threadVars, tableVars>>

PackNext == Zip \/ Unzip

PackSpec == PackInit /\ [][PackNext]_vars

-----------------------------------------------------------------------------
\* A pass over cs_list: each line in turn is unzipped and written out by
\* cs_zip_to_str, and its zip is searched by the scan of
\* Curl_cipher_suite_lookup_id.

TableInit ==
  /\ pc = "table"
  /\ CallerIdle
  /\ ThreadsIdle
  /\ PackIdle
  /\ TableIdle

Visit ==
  /\ pc = "table"
  /\ row < CS_LIST_LEN
  /\ row' = row + 1
  /\ \E zip \in {cs_list[row + 1].zip} :
       /\ rowidx' = cs_unzip_indexes(zip)
       /\ \E res \in {cs_zip_to_str(zip, FreshBuf(MaxBufSize), MaxBufSize)} :
            rowout' = [r |-> res.r, buf |-> res.buf, id |-> cs_list_scan(zip)]
  /\ UNCHANGED <<callerVars, threadVars, packVars>>

TableNext == Visit

TableSpec == TableInit /\ [][TableNext]_vars
-----------------------------------------------------------------------------
\* What the claims speak of, written from the table lines as text.

\* the names of the table lines as written
EntryNames ==
  SubSeq([i \in DOMAIN CS_ENTRIES |-> EntryName(i)], 1, Len(CS_ENTRIES))

\* the table lines with a given id
LinesOf(i) == {n \in DOMAIN CS_ENTRIES : CS_ENTRIES[n][1] = i}

\* the lines of the preferred style, or all lines of the id when it has none
PreferredLines(i, p) ==
  LET styled == {n \in LinesOf(i) : EntryIsRfc(n) = p}
  IN  IF styled # {} THEN styled ELSE LinesOf(i)

\* the string returned in the buffer and the argument of the last lookup
OutStr == CStr(outbuf)
Input == SubSeq(text, 1, textlen)

\* the separator a name is split on
SepFor(inp) ==
  IF Len(inp) >= 3 /\ Upper(SubSeq(inp, 1, 3)) = <<84, 76, 83>>
  THEN CH_UNDERSCORE ELSE CH_MINUS

\* the elements of a set of numbers in increasing order
Sorted(S) ==
  AsSeq([k \in 1..Cardinality(S) |->
           CHOOSE q \in S : Cardinality({x \in S : x <= q}) = k])

\* the parts of a name: the pieces between the separators
Fields(inp) ==
  LET sep == SepFor(inp)
      cuts == <<0>> \o Sorted({k \in DOMAIN inp : inp[k] = sep}) \o <<Len(inp) + 1>>
  IN  AsSeq([k \in 1..(Len(cuts) - 1) |->
               SubSeq(inp, cuts[k] + 1, cuts[k + 1] - 1)])

KnownWord(w) ==
  LET u == Upper(w) IN \E t \in 1..(CS_TXT_LEN - 1) : cs_txt[t + 1] = u

\* what cs_str_to_zip returns for the argument of the last lookup
EncodeRc == cs_str_to_zip(text, 1, textlen).rc

\* the fallback text for an id, digit by digit
HexVal(c) ==
  IF c >= 48 /\ c <= 57 THEN c - 48
  ELSE IF c >= 97 /\ c <= 102 THEN c - 87
  ELSE -65536

IsFallbackOf(txt, i) ==
  /\ Len(txt) = 18
  /\ SubSeq(txt, 1, 14) = <<84, 76, 83, 95, 85, 78, 75, 78, 79, 87, 78, 95, 48, 120>>
  /\ 4096 * HexVal(txt[15]) + 256 * HexVal(txt[16]) + 16 * HexVal(txt[17])
       + HexVal(txt[18]) = i

\* the separator characters of a list
IsListSep(c) == c \in {32, 9, 58, 44, 59}

\* positions where a maximal run of non-separator characters starts
RunStarts(list) ==
  {k \in 1..(Len(list) - 1) :
     ~IsListSep(list[k]) /\ (k = 1 \/ IsListSep(list[k - 1]))}

\* first position at or after a that holds a separator or the final 0
RunEnd(list, a) ==
  CHOOSE b \in a..Len(list) :
    /\ IsListSep(list[b]) \/ list[b] = NUL
    /\ \A k \in a..(b - 1) : ~IsListSep(list[k]) /\ list[k] # NUL

\* first position at or after a that holds no separator
NameStart(list, a) ==
  CHOOSE b \in a..Len(list) :
    ~IsListSep(list[b]) /\ \A k \in a..(b - 1) : IsListSep(list[k])

\* the ids a complete walk of the list returns
ExpectedIds(list) ==
  LET starts == Sorted(RunStarts(list))
  IN  AsSeq([n \in 1..Len(starts) |->
               Curl_cipher_suite_lookup_id(list, starts[n],
                                           RunEnd(list, starts[n]) - starts[n])])
      \o (IF Len(list) > 1 /\ IsListSep(list[Len(list) - 1]) THEN <<0>> ELSE <<>>)

WalkCall == pc = "call" /\ pc' = "returned"

-----------------------------------------------------------------------------
\* C1: for every table line, get_str with the id of the line, the style of
\* the line and a buffer that holds the name succeeds, and lookup_id of the
\* string it wrote returns the id of the line.
C1_RoundTrip ==
  pc = "got" =>
    \A n \in LinesOf(suite) :
      (EntryIsRfc(n) = rfc /\ bufsize > Len(EntryNames[n])) =>
        /\ ret = 0
        /\ Curl_cipher_suite_lookup_id(OutStr \o <<NUL>>, 1, Len(OutStr)) = suite

\* get_str wrote the legacy name of 0x002F, which also has an RFC name
C1_Witness ==
  /\ pc = "got" /\ suite = 47 /\ ~rfc /\ bufsize = MaxBufSize /\ ret = 0
  /\ OutStr = EntryNames[2]
  /\ Cardinality(LinesOf(47)) = 2
  /\ Curl_cipher_suite_lookup_id(OutStr \o <<NUL>>, 1, Len(OutStr)) = 47

\* C2: lookup_id returns the id of the first table line whose name is the
\* argument (letter case aside) and 0 when there is no such line: for an
\* unknown part, a zero length, a strict prefix or an extension of a name; no
\* table line has id 0.
C2_ExactMatch ==
  /\ 0 \notin TableIds
  /\ pc = "looked" =>
       LET name == Upper(Input)
           same == {n \in DOMAIN CS_ENTRIES : EntryNames[n] = name}
       IN  IF same = {} THEN lookup = 0
           ELSE lookup = CS_ENTRIES[CHOOSE n \in same : \A k \in same : n <= k][1]

\* a name of the table extended by one more part was looked up and not found
C2_Witness ==
  /\ pc = "looked" /\ lookup = 0 /\ textlen = Len(EntryNames[2]) + 4
  /\ SubSeq(Input, 1, Len(EntryNames[2])) = EntryNames[2]
  /\ EncodeRc = 0

C4_AliasPreference ==
  (pc = "got" /\ suite \in TableIds /\ bufsize = MaxBufSize) =>
    /\ ret = 0
    /\ \E n \in PreferredLines(suite, rfc) : OutStr = EntryNames[n]
    /\ (\E n \in LinesOf(suite) : EntryIsRfc(n) = rfc) =>
         (OutStr[1] = 84 /\ OutStr[2] = 76 /\ OutStr[3] = 83 /\ OutStr[4] = 95) = rfc
    /\ LET rev == Reverse(cs_list)
           j == cs_find(cs_list, suite, rfc)
           k == cs_find(rev, suite, rfc)
       IN  j < CS_LIST_LEN /\ k < CS_LIST_LEN /\ rev[k + 1] = cs_list[j + 1]

\* 0x1301 has no legacy name: get_str wrote the RFC name although the legacy
\* style was asked for
C4_Witness ==
  /\ pc = "got" /\ suite = 4865 /\ ~rfc /\ bufsize = MaxBufSize /\ ret = 0
  /\ LinesOf(4865) # {} /\ \A n \in LinesOf(4865) : EntryIsRfc(n)
  /\ \E n \in LinesOf(4865) : OutStr = EntryNames[n]
  /\ SubSeq(OutStr, 1, 8) = <<84, 76, 83, 95, 65, 69, 83, 95>>

\* C5: for an id that is in no table line, get_str returns a negative value,
\* and with a buffer of at least 19 bytes the buffer holds TLS_UNKNOWN_0x
\* followed by the id as 4 lower case hexadecimal digits.
C5_UnknownId ==
  (pc = "got" /\ suite \notin TableIds) =>
    /\ ret < 0
    /\ bufsize >= 19 => IsFallbackOf(OutStr, suite)

\* get_str was asked for 0xFFFF and for 0x0000
C5_Witness ==
  /\ pc = "got" /\ suite \in {0, 65535} /\ bufsize = 19 /\ ret = -1
  /\ SubSeq(OutStr, 15, 18) \in {<<48, 48, 48, 48>>, <<102, 102, 102, 102>>}

\* C6: lookup_id returns the same id for a string and for the string with
\* its letters changed to upper case or to lower case.
C6_CaseInsensitive ==
  pc = "looked" =>
    /\ lookup = Curl_cipher_suite_lookup_id(Upper(text), 1, textlen)
    /\ lookup = Curl_cipher_suite_lookup_id(Lower(text), 1, textlen)

\* a name with a lower case letter in its TLS prefix was found
C6_Witness ==
  /\ pc = "looked" /\ lookup = 47 /\ textlen = Len(EntryNames[1])
  /\ Input # EntryNames[1] /\ Upper(Input) = EntryNames[1]
  /\ \E k \in 1..3 : Input[k] # EntryNames[1][k]

\* C7 as claimed: a name with an empty part (leading, doubled or trailing
\* separator) whose other parts are all parts of cs_txt, at most 8 parts in
\* all, is encoded with success.
C7_EmptyFieldAccepted ==
  (pc = "looked" /\ textlen > 0) =>
    LET f == Fields(Input)
    IN  (/\ \E k \in DOMAIN f : f[k] = <<>>
         /\ Len(f) <= 8
         /\ \A k \in DOMAIN f : f[k] = <<>> \/ KnownWord(f[k]))
        => EncodeRc = 0

\* C7 amended: a name with an empty part fails to encode (cs_str_to_zip
\* returns -1), so lookup_id returns 0 for it.
C7_EmptyFieldFails ==
  (pc = "looked" /\ textlen > 0) =>
    LET f == Fields(Input)
    IN  (\E k \in DOMAIN f : f[k] = <<>>) => (EncodeRc = -1 /\ lookup = 0)

\* "AES128--SHA", a table name with a doubled separator, was looked up
C7_Witness ==
  /\ pc = "looked" /\ textlen > 0 /\ lookup = 0 /\ EncodeRc = -1
  /\ Fields(Input) = <<cs_txt[CS_TXT_IDX_AES128 + 1], <<>>, cs_txt[CS_TXT_IDX_SHA + 1]>>

\* C8: a name of 9 or more parts fails to encode and lookup_id returns 0 for
\* it; a name of exactly 8 parts that are all in cs_txt encodes.
C8_TooManyFields ==
  (pc = "looked" /\ textlen > 0) =>
    LET f == Fields(Input)
    IN  /\ Len(f) >= 9 => (EncodeRc = -1 /\ lookup = 0)
        /\ (Len(f) = 8 /\ \A k \in 1..8 : KnownWord(f[k])) => EncodeRc = 0

\* a name of 9 known parts was looked up
C8_Witness ==
  /\ pc = "looked" /\ textlen > 0 /\ lookup = 0 /\ EncodeRc = -1
  /\ Len(Fields(Input)) = 9
  /\ \A k \in 1..9 : KnownWord(Fields(Input)[k])

\* C9: the caller's loop over a list ends with the cursor on the final 0;
\* every call returns an end beyond the cursor it was given; the ids returned
\* are lookup_id of the maximal runs of non-separator characters in order,
\* followed by a 0 when the list ends with a separator.
C9_WalkCompletes ==
  /\ [](pc = "done" =>
          (text[ptr] = NUL /\ ptr = Len(text) /\ walked = ExpectedIds(text)))
  /\ [][WalkCall => (text[ptr] # NUL /\ endp' > ptr)]_vars
  /\ ((pc = "call") ~> (pc = "done"))

\* the walk of "AES128-SHA" <sep> "ECDHE-RSA-AES256-SHA" is done
C9_Witness ==
  /\ pc = "done" /\ walked = <<47, 49172>> /\ text[ptr] = NUL
  /\ Cardinality(RunStarts(text)) = 2

\* C10 as claimed: when walk_str returns for a cursor before a non-empty
\* name, *str is at or beyond the end of that name.
C10_CursorPastToken ==
  [][WalkCall =>
       LET a == NameStart(text, ptr)
           b == RunEnd(text, a)
       IN  b > a => ptr' >= b]_vars

\* C10 amended: walk_str moves *str only over the separators before the name,
\* to the first character of the name, and sets *end to the end of the name;
\* a second call with the same *str returns the same name again.
C10_CursorAtTokenStart ==
  [][WalkCall =>
       LET a == NameStart(text, ptr)
       IN  /\ ptr' = a
           /\ endp' = RunEnd(text, a)
           /\ Curl_cipher_suite_walk_str(text, ptr')
                = [str |-> ptr', end |-> endp', id |-> walked'[Len(walked')]]]_vars

\* walk_str returned with *str on the first character of a name that follows
\* a separator, and *end behind the name
C10_Witness ==
  /\ pc = "returned" /\ ptr > 1 /\ IsListSep(text[ptr - 1])
  /\ ptr < endp /\ walked # <<>> /\ walked[Len(walked)] = 47

\* what the call c returns when it runs alone
Alone(c) ==
  IF c.op = "lookup"
  THEN [FreshOut(c) EXCEPT !.ret = Curl_cipher_suite_lookup_id(c.s, 1, c.len)]
  ELSE IF c.op = "walk"
  THEN LET w == Curl_cipher_suite_walk_str(c.s, 1)
       IN  [FreshOut(c) EXCEPT !.str = w.str, !.end = w.end, !.ret = w.id]
  ELSE LET g == Curl_cipher_suite_get_str(c.id, FreshBuf(c.size), c.size, c.prefer)
       IN  [FreshOut(c) EXCEPT !.buf = g.buf, !.ret = g.r]

\* C11: with several threads calling lookup_id, walk_str and get_str at the
\* same time, each with a cursor and a buffer of its own, every call that has
\* returned handed its caller what the same call hands back when run alone.
C11_ThreadsIndependent ==
  pc = "threads" =>
    \A t \in Threads : tpc[t] = "done" => tout[t] = Alone(targ[t])

\* all threads looked up a name at the same time and have returned, the first
\* two with different ids, each from the zip[] of its own frame
C11_Witness ==
  /\ pc = "threads"
  /\ \A t \in Threads : tpc[t] = "done" /\ targ[t].op = "lookup"
  /\ tout[1].ret = 47 /\ tout[2].ret = 4865
  /\ auto[1].zip # auto[2].zip

\* indexes with the places of Keep kept and 0 at the other places
Mask(indexes, Keep) == [k \in 1..8 |-> IF k \in Keep THEN indexes[k] ELSE 0]

\* C12: the 6 bytes that cs_str_to_zip writes for 8 indexes of 0..63 are
\* bytes, are the bytes of CS_ZIP_IDX, and unzip in cs_zip_to_str to the same
\* 8 indexes; bytes 0-2 are those of indexes 0-3 alone and bytes 3-5 those of
\* indexes 4-7 alone.
C12_PackLossless ==
  pc = "unzipped" =>
    /\ \A k \in 1..6 : pzip[k] \in 0..255
    /\ pzip = CS_ZIP_IDX(pidx[1], pidx[2], pidx[3], pidx[4],
                         pidx[5], pidx[6], pidx[7], pidx[8])
    /\ pun = pidx
    /\ SubSeq(pzip, 1, 3) = SubSeq(cs_zip_indexes(Mask(pidx, 1..4)), 1, 3)
    /\ SubSeq(pzip, 4, 6) = SubSeq(cs_zip_indexes(Mask(pidx, 5..8)), 4, 6)

\* indexes with all bits set in the first group and mixed values in the
\* second were zipped and unzipped
C12_Witness ==
  /\ pc = "unzipped" /\ pun = pidx
  /\ SubSeq(pidx, 1, 4) = <<63, 63, 63, 63>> /\ pidx[5] = 42 /\ pidx[6] = 0
  /\ SubSeq(pzip, 1, 3) = <<255, 255, 255>>

\* the parts of table line i as written, the empty ones left out
WrittenParts(i) ==
  LET args == SubSeq(CS_ENTRIES[i], 2, 9)
      RECURSIVE from(_)
      from(k) == IF k > 8 THEN <<>>
                 ELSE IF args[k] = CS_TXT_IDX_ THEN from(k + 1)
                 ELSE <<args[k]>> \o from(k + 1)
  IN  from(1)

\* C13: every line of cs_list unzips to 8 indexes of which the first is not
\* 0, none follows a 0 unless it is 0, and all are below CS_TXT_LEN; they are
\* the parts written in the line, and cs_zip_to_str returns 0 for the line
\* and writes every part of it.
C13_TableWellFormed ==
  (pc = "table" /\ row > 0) =>
    /\ rowidx[1] # 0
    /\ \A k \in 1..7 : rowidx[k] = 0 => rowidx[k + 1] = 0
    /\ \A k \in 1..8 : rowidx[k] < CS_TXT_LEN
    /\ rowidx = SubSeq(CS_ENTRIES[row], 2, 9)
    /\ rowout.r = 0
    /\ HasNul(rowout.buf)
    /\ CStr(rowout.buf) = NameOf(WrittenParts(row), SepOf(WrittenParts(row)))

\* a line of all 8 parts has been unzipped and written out in full
C13_Witness ==
  /\ pc = "table" /\ row > 0
  /\ rowidx[8] # 0
  /\ rowout.r = 0
  /\ Len(CStr(rowout.buf)) > 30

\* cs_list[i].zip[0] >> 2 == CS_TXT_IDX_TLS
FirstIsTls(i) == Shr(cs_list[i].zip[1], 2) = CS_TXT_IDX_TLS

\* C14: a line of cs_list with the zip of another line has its id, so that
\* the scan of Curl_cipher_suite_lookup_id finds the line's own id for its
\* zip; and no other line has both its id and its kind of first part (TLS or
\* not TLS).
C14_TableUnambiguous ==
  (pc = "table" /\ row > 0) =>
    /\ rowout.id = cs_list[row].id
    /\ \A k \in 1..CS_LIST_LEN :
         /\ cs_list[k].zip = cs_list[row].zip => cs_list[k].id = cs_list[row].id
         /\ (k # row /\ cs_list[k].id = cs_list[row].id)
              => FirstIsTls(k) # FirstIsTls(row)

\* the line visited is one of two lines of the same id, and the scan found
\* its id
C14_Witness ==
  /\ pc = "table" /\ row > 0
  /\ rowout.id = cs_list[row].id
  /\ ~FirstIsTls(row)
  /\ \E k \in 1..CS_LIST_LEN : k # row /\ cs_list[k].id = cs_list[row].id

\* the names of the table lines joined with the separator of the other style
OtherSepNames ==
  {NameOf(EntryIndexes(i), OtherSep(SepOf(EntryIndexes(i)))) : i \in DOMAIN CS_ENTRIES}

\* C15: cs_str_to_zip splits on '_' when the string begins with TLS in any
\* case and on '-' otherwise; a name written by cs_zip_to_str has '_' between
\* its parts when it begins with TLS and '-' otherwise; and the name of a
\* table line joined with the other separator, in any case, resolves to 0.
C15_SeparatorConvention ==
  /\ pc = "looked" =>
       /\ cs_str_separator(text, 1) = SepFor(CStr(text))
       /\ (textlen = Len(CStr(text)) /\ Upper(Input) \in OtherSepNames) => lookup = 0
  /\ (pc = "got" /\ ret = 0 /\ HasNul(outbuf)) =>
       \A k \in DOMAIN OutStr :
         OutStr[k] \in {CH_MINUS, CH_UNDERSCORE} => OutStr[k] = SepFor(OutStr)

\* a name of the table beginning with TLS was looked up with its parts
\* joined by '-' and resolved to 0
C15_Witness ==
  /\ pc = "looked"
  /\ textlen = Len(CStr(text))
  /\ Input \in OtherSepNames
  /\ SubSeq(Input, 1, 4) = <<84, 76, 83, CH_MINUS>>
  /\ cs_str_separator(text, 1) = CH_UNDERSCORE
  /\ lookup = 0

=============================================================================
